---- MODULE Spec2Model ----
(***************************************************************************)
(* The PPTX slide-extraction pipeline of presentation-app: PPTXParser of   *)
(* lib/pptx-parser.ts in its two variants (the richer one, which splices   *)
(* directly parsed text onto remotely converted images, and the basic one, *)
(* which tries image conversion, then PDF conversion, then direct          *)
(* parsing), and the pptx-to-images route that answers the remote call.    *)
(*                                                                         *)
(* Strings are TLA+ strings; `string | null` and `SlideData | null` are    *)
(* sequences of length 0 (null) or 1.  A parsed XML document is the        *)
(* sequence of the elements the code selects from it.  A rendered canvas   *)
(* is the data URL of a token naming the renderer and the slide number.    *)
(***************************************************************************)
EXTENDS Integers, Sequences, FiniteSets, TLC

\* Bounds of the model.
MaxRefs == 3
MaxImages == 2

VARIABLES
    variant,         \* "rich" (text spliced onto images) or "basic" (with PDF step)
    file,            \* the File handed to parsePPTX
    canvas,          \* whether getContext('2d') yields a context, per renderer
    zip,             \* PPTXParser.zip: <<>> (null) or <<entries>>
    slideRelations,  \* PPTXParser.slideRelations: relationship id -> target
    pc,              \* position of the parsePPTX call
    phase,           \* call site of direct parsing: "combine" or "fallback"
    i,               \* loop counter of extractSlides
    slides,          \* the array extractSlides is filling
    imageSlides,     \* what convertToImagesAndExtract returned
    remote,          \* how the remote conversion ended: "none", "pending" (never),
                     \* "threw", "empty" (fallback flag), "combined", "images"
    outcome,         \* "pending", "returned" or "thrown"
    result,          \* the array parsePPTX returned
    error,           \* the message of the error parsePPTX threw
    cause,           \* the step whose exception the outer catch logged
    calls,           \* how often each step was executed in this call
    xmlDoc,          \* the slide document handed to extractSlideInfo
    slideInfo,       \* the slideInfo object extractSlideInfo is filling
    fillText,        \* the texts drawn on the canvas so far, in order
    drawnText,       \* the text handed to createCanvasSlide
    totalLines,      \* createCanvasSlide's count of used lines
    allSlides,       \* the slides handleSlidesUpload stored with setSlides
    processingStep,  \* the message handleSlidesUpload shows
    parsers,         \* two calls: the PPTXParser objects, by identity
    running          \* two calls: the state of each parsePPTX call

parserVars == <<variant, file, canvas, zip, slideRelations, pc, phase, i, slides,
                imageSlides, remote, outcome, result, error, cause, calls>>

rendererVars == <<xmlDoc, slideInfo, fillText, drawnText, totalLines>>

textVars == <<drawnText, totalLines>>

uploadVars == <<allSlides, processingStep, parsers, running>>

asideVars == <<rendererVars, uploadVars>>

vars == <<variant, file, canvas, zip, slideRelations, pc, phase, i, slides,
          imageSlides, remote, outcome, result, error, cause, calls,
          xmlDoc, slideInfo, fillText, drawnText, totalLines,
          allSlides, processingStep, parsers, running>>

----------------------------------------------------------------------------
(* Strings and arrays as JavaScript handles them.                          *)

Null == <<>>
Some(x) == <<x>>

\* if (x): null, undefined and '' are falsy.
Truthy(o) == o # Null /\ o[1] # ""

Range(s) == {s[k] : k \in 1..Len(s)}

StartsWith(s, p) == Len(s) >= Len(p) /\ SubSeq(s, 1, Len(p)) = p

Includes(s, t) == \E k \in 1..(Len(s) - Len(t) + 1) : SubSeq(s, k, k + Len(t) - 1) = t

LowerOf ==
    [c \in {"A", "B", "C", "D", "E", "F", "G", "H", "I", "J", "K", "L", "M", "N",
            "O", "P", "Q", "R", "S", "T", "U", "V", "W", "X", "Y", "Z"} |->
        CASE c = "A" -> "a" [] c = "B" -> "b" [] c = "C" -> "c" [] c = "D" -> "d"
          [] c = "E" -> "e" [] c = "F" -> "f" [] c = "G" -> "g" [] c = "H" -> "h"
          [] c = "I" -> "i" [] c = "J" -> "j" [] c = "K" -> "k" [] c = "L" -> "l"
          [] c = "M" -> "m" [] c = "N" -> "n" [] c = "O" -> "o" [] c = "P" -> "p"
          [] c = "Q" -> "q" [] c = "R" -> "r" [] c = "S" -> "s" [] c = "T" -> "t"
          [] c = "U" -> "u" [] c = "V" -> "v" [] c = "W" -> "w" [] c = "X" -> "x"
          [] c = "Y" -> "y" [] c = "Z" -> "z"]

LowerChar(c) == IF c \in DOMAIN LowerOf THEN LowerOf[c] ELSE c

RECURSIVE ToLowerCase(_)
ToLowerCase(s) ==
    IF s = "" THEN ""
    ELSE LowerChar(SubSeq(s, 1, 1)) \o ToLowerCase(SubSeq(s, 2, Len(s)))

IsSpace(c) == c \in {" ", "\n", "\t"}

RECURSIVE TrimStart(_)
TrimStart(s) ==
    IF s # "" /\ IsSpace(SubSeq(s, 1, 1)) THEN TrimStart(SubSeq(s, 2, Len(s))) ELSE s

RECURSIVE TrimEnd(_)
TrimEnd(s) ==
    IF s # "" /\ IsSpace(SubSeq(s, Len(s), Len(s)))
    THEN TrimEnd(SubSeq(s, 1, Len(s) - 1)) ELSE s

Trim(s) == TrimEnd(TrimStart(s))

RECURSIVE Join(_, _)
Join(strs, sep) ==
    IF strs = <<>> THEN ""
    ELSE IF Len(strs) = 1 THEN strs[1]
    ELSE strs[1] \o sep \o Join(Tail(strs), sep)

RECURSIVE MapTrim(_)
MapTrim(strs) == IF strs = <<>> THEN <<>> ELSE <<Trim(strs[1])>> \o MapTrim(Tail(strs))

NonEmpty(s) == s # ""

\* fileName.toLowerCase().split('.').pop()
AfterLastDot(s) ==
    LET dots == {k \in 1..Len(s) : SubSeq(s, k, k) = "."}
    IN  IF dots = {} THEN s
        ELSE SubSeq(s, (CHOOSE k \in dots : \A j \in dots : j <= k) + 1, Len(s))

----------------------------------------------------------------------------
(* The archive: Object.keys(zip.files) is the sequence of entry names in   *)
(* the archive's physical order.  An entry carries what reading it gives:  *)
(* the slide references of ppt/presentation.xml, the Relationship elements *)
(* of the relationships part, the text runs of a slide part, the base64 of *)
(* a media file.  Reading a corrupt entry rejects.                         *)

Entry(name, corrupt, refs, rels, runs, data) ==
    [name |-> name, corrupt |-> corrupt, refs |-> refs, rels |-> rels,
     runs |-> runs, data |-> data]

Keys(entries) == [k \in 1..Len(entries) |-> entries[k].name]

\* zip.file(name): the entry of that name, or null.
ZipFile(entries, name) ==
    IF \E k \in 1..Len(entries) : entries[k].name = name
    THEN Some(entries[CHOOSE k \in 1..Len(entries) : entries[k].name = name])
    ELSE Null

\* A thrown exception or a rejected promise, and a normal completion.
Threw == [threw |-> TRUE]
Value(v) == [threw |-> FALSE, value |-> v]

----------------------------------------------------------------------------
(* parseSlideRelations                                                     *)

RelsPath == "ppt/_rels/presentation.xml.rels"
PresentationPath == "ppt/presentation.xml"

\* Map.set(id, target)
MapSet(map, id, target) ==
    [x \in (DOMAIN map) \cup {id} |-> IF x = id THEN target ELSE map[x]]

\* if (type?.includes('slide') && id && target) this.slideRelations.set(id, target)
IsSlideRelation(rel) == Includes(rel.Type, "slide") /\ rel.Id # "" /\ rel.Target # ""

RECURSIVE SetRelations(_, _)
SetRelations(map, rels) ==
    IF rels = <<>> THEN map
    ELSE SetRelations(IF IsSlideRelation(rels[1])
                      THEN MapSet(map, rels[1].Id, rels[1].Target)
                      ELSE map,
                      Tail(rels))

\* The map after parseSlideRelations, which adds to the map it finds.
ParseSlideRelationsOp(entries, map) ==
    LET relsFile == ZipFile(entries, RelsPath)
    IN  IF relsFile = Null THEN Value(map)
        ELSE IF relsFile[1].corrupt THEN Threw
        ELSE Value(SetRelations(map, relsFile[1].rels))

----------------------------------------------------------------------------
(* The renderers.  Only their outcome is modelled: no context, or the data *)
(* URL of the drawn canvas.                                                *)

DataUri(mimeType, data) == "data:" \o mimeType \o ";base64," \o data

SlideId(slideNumber) == "slide-" \o ToString(slideNumber)

SlideDuration == 10

SlideData(slideNumber, imageUrl, text) ==
    [id |-> SlideId(slideNumber), imageUrl |-> imageUrl,
     startTime |-> (slideNumber - 1) * SlideDuration, duration |-> SlideDuration,
     text |-> text, slideNumber |-> slideNumber]

\* if (!ctx) return ''; ... return canvas.toDataURL('image/png', 0.95)
CreateDetailedCanvasSlide(slideNumber, cv) ==
    IF ~cv.detailed THEN ""
    ELSE DataUri("image/png", "detailed-canvas-" \o ToString(slideNumber))

\* A renderer that answers a missing context with a blank image.
CreateCanvasSlideBlank(slideText, slideNumber, cv) ==
    Value(SlideData(slideNumber,
                    IF cv.plain
                    THEN DataUri("image/png", "plain-canvas-" \o ToString(slideNumber))
                    ELSE "",
                    slideText))

\* A renderer that gives up on a slide without text.
CreateCanvasSlideNeedsText(slideText, slideNumber, cv) ==
    IF cv.plain /\ slideText # ""
    THEN Value(SlideData(slideNumber,
                         DataUri("image/png", "plain-canvas-" \o ToString(slideNumber)),
                         slideText))
    ELSE Threw

\* if (ctx) {... return slideData} throw new Error('Failed to create canvas slide')
CreateCanvasSlide(slideText, slideNumber, cv) ==
    IF cv.plain
    THEN Value(SlideData(slideNumber,
                         DataUri("image/png", "plain-canvas-" \o ToString(slideNumber)),
                         slideText))
    ELSE Threw

RenderSlideAsImage(entries, slidePath, slideNumber, cv) ==
    LET slideFile == ZipFile(entries, "ppt/" \o slidePath)
    IN  IF slideFile = Null THEN Null
        ELSE IF slideFile[1].corrupt THEN Null
        ELSE Some(CreateDetailedCanvasSlide(slideNumber, cv))

----------------------------------------------------------------------------
(* extractSlideImage                                                       *)

ImageExtensions == {"png", "jpg", "jpeg", "gif", "bmp", "tiff"}

\* fileName.match(/\.(png|jpg|jpeg|gif|bmp|tiff)$/i)
IsImageFile(fileName) ==
    \E e \in ImageExtensions :
        /\ Len(fileName) > Len(e)
        /\ ToLowerCase(SubSeq(fileName, Len(fileName) - Len(e), Len(fileName))) = "." \o e

IsMediaFile(fileName) ==
    StartsWith(fileName, "ppt/media/") \/ StartsWith(fileName, "ppt/slides/media/")

\* A match on the image<N> pattern alone.
MatchesSlideByImageName(fileName, slideNumber) ==
    Includes(fileName, "image" \o ToString(slideNumber))

MatchesSlide(fileName, slideNumber) ==
    LET n == ToString(slideNumber)
    IN  \/ Includes(fileName, "slide" \o n)
        \/ Includes(fileName, "image" \o n)
        \/ Includes(fileName, "media" \o n)
        \/ LET lower == ToLowerCase(fileName)
           IN  \E sep \in {"", "_", "-"} : Includes(lower, "slide" \o sep \o n)

GetMimeType(fileName) ==
    LET extension == AfterLastDot(ToLowerCase(fileName))
    IN  CASE extension = "png" -> "image/png"
          [] extension \in {"jpg", "jpeg"} -> "image/jpeg"
          [] extension = "gif" -> "image/gif"
          [] extension = "bmp" -> "image/bmp"
          [] OTHER -> "image/png"

\* mediaFiles.sort((a, b) => a.length - b.length)[0]: the sort is stable.
ShortestFirst(names) ==
    names[CHOOSE k \in 1..Len(names) :
             /\ \A j \in 1..Len(names) : Len(names[k]) <= Len(names[j])
             /\ \A j \in 1..(k - 1) : Len(names[j]) > Len(names[k])]

\* imageFile.async('base64') and the data URI; a rejected read is caught by
\* extractSlideImage's catch, which returns null.
ReadImage(entries, name) ==
    LET imageFile == ZipFile(entries, name)[1]
    IN  IF imageFile.corrupt THEN Null
        ELSE Some(DataUri(GetMimeType(name), imageFile.data))

ThumbnailPaths(slideNumber) ==
    LET n == ToString(slideNumber)
    IN  << "ppt/media/slide" \o n \o ".png", "ppt/media/slide" \o n \o ".jpg",
           "ppt/slides/media/slide" \o n \o ".png",
           "ppt/slides/media/slide" \o n \o ".jpg" >>

\* A resolution whose second method takes the last slide-scoped file.
ExtractSlideImageLastScoped(entries, slidePath, slideNumber, cv) ==
    LET keys == Keys(entries)
        mediaFiles == SelectSeq(keys, LAMBDA f :
                          IsMediaFile(f) /\ IsImageFile(f) /\ MatchesSlide(f, slideNumber))
        slideMediaFiles == SelectSeq(keys, LAMBDA f :
                          StartsWith(f, "ppt/slides/media/") /\ IsImageFile(f))
        slideImageUrl == RenderSlideAsImage(entries, slidePath, slideNumber, cv)
    IN  IF mediaFiles # <<>> THEN ReadImage(entries, ShortestFirst(mediaFiles))
        ELSE IF slideMediaFiles # <<>>
             THEN ReadImage(entries, slideMediaFiles[Len(slideMediaFiles)])
        ELSE IF Truthy(slideImageUrl) THEN slideImageUrl
        ELSE Null

\* A resolution that tries the renderer before the archive's media.
ExtractSlideImageRenderFirst(entries, slidePath, slideNumber, cv) ==
    LET keys == Keys(entries)
        mediaFiles == SelectSeq(keys, LAMBDA f :
                          IsMediaFile(f) /\ IsImageFile(f) /\ MatchesSlide(f, slideNumber))
        slideMediaFiles == SelectSeq(keys, LAMBDA f :
                          StartsWith(f, "ppt/slides/media/") /\ IsImageFile(f))
        slideImageUrl == RenderSlideAsImage(entries, slidePath, slideNumber, cv)
    IN  IF Truthy(slideImageUrl) THEN slideImageUrl
        ELSE IF mediaFiles # <<>> THEN ReadImage(entries, ShortestFirst(mediaFiles))
        ELSE IF slideMediaFiles # <<>> THEN ReadImage(entries, slideMediaFiles[1])
        ELSE Null

\* Methods 1 to 4 in the order of the source; the first that yields returns.
ExtractSlideImage(entries, slidePath, slideNumber, cv) ==
    LET keys == Keys(entries)
        mediaFiles == SelectSeq(keys, LAMBDA f :
                          IsMediaFile(f) /\ IsImageFile(f) /\ MatchesSlide(f, slideNumber))
        slideMediaFiles == SelectSeq(keys, LAMBDA f :
                          StartsWith(f, "ppt/slides/media/") /\ IsImageFile(f))
        slideImageUrl == RenderSlideAsImage(entries, slidePath, slideNumber, cv)
        thumbnails == SelectSeq(ThumbnailPaths(slideNumber),
                                LAMBDA p : ZipFile(entries, p) # Null)
    IN  IF mediaFiles # <<>> THEN ReadImage(entries, ShortestFirst(mediaFiles))
        ELSE IF slideMediaFiles # <<>> THEN ReadImage(entries, slideMediaFiles[1])
        ELSE IF Truthy(slideImageUrl) THEN slideImageUrl
        ELSE IF thumbnails # <<>> THEN ReadImage(entries, thumbnails[1])
        ELSE Null

----------------------------------------------------------------------------
(* extractSlideContent and extractSlides                                   *)

\* A text that keeps the empty runs.
SlideTextUnfiltered(runs) == Join(MapTrim(runs), " ")

\* Array.from(textElements).map(trim).filter(non-empty).join(' ')
SlideText(runs) == Join(SelectSeq(MapTrim(runs), NonEmpty), " ")

\* null when the slide part is missing or anything inside the try throws.
ExtractSlideContent(entries, slidePath, slideNumber, cv) ==
    LET slideFile == ZipFile(entries, "ppt/" \o slidePath)
    IN  IF slideFile = Null THEN Null
        ELSE IF slideFile[1].corrupt THEN Null
        ELSE LET slideText == SlideText(slideFile[1].runs)
                 slideImageUrl == ExtractSlideImage(entries, slidePath, slideNumber, cv)
                 drawn == CreateCanvasSlide(slideText, slideNumber, cv)
             IN  IF Truthy(slideImageUrl)
                 THEN Some(SlideData(slideNumber, slideImageUrl[1], slideText))
                 ELSE IF drawn.threw THEN Null
                 ELSE Some(drawn.value)

\* slideId.getAttribute('r:id') || slideId.getAttribute('id')
RefId(ref) == IF ref.rid # "" THEN ref.rid ELSE ref.id

\* A loop body that raises on a reference it cannot resolve.
ExtractRefStrict(entries, map, ref, slideNumber, cv) ==
    LET rId == RefId(ref)
    IN  IF rId # "" /\ rId \in DOMAIN map /\ map[rId] # ""
        THEN Value(ExtractSlideContent(entries, map[rId], slideNumber, cv))
        ELSE Threw

\* A loop body through which the failure of a slide's extraction propagates.
ExtractRefPropagating(entries, map, ref, slideNumber, cv) ==
    LET rId == RefId(ref)
    IN  IF rId # "" /\ rId \in DOMAIN map /\ map[rId] # ""
        THEN LET slideData == ExtractSlideContent(entries, map[rId], slideNumber, cv)
             IN  IF slideData = Null THEN Threw ELSE Value(slideData)
        ELSE Value(<<>>)

\* One iteration of extractSlides' loop: the records it pushes (none or one).
\* extractSlideContent catches whatever is thrown inside it, so the iteration
\* completes normally.
ExtractRef(entries, map, ref, slideNumber, cv) ==
    LET rId == RefId(ref)
    IN  IF rId # "" /\ rId \in DOMAIN map
        THEN IF map[rId] # ""
             THEN Value(ExtractSlideContent(entries, map[rId], slideNumber, cv))
             ELSE Value(<<>>)
        ELSE Value(<<>>)

RECURSIVE ExtractRefsFrom(_, _, _, _, _)
ExtractRefsFrom(entries, map, refs, k, cv) ==
    IF k > Len(refs) THEN Value(<<>>)
    ELSE LET r == ExtractRef(entries, map, refs[k], k, cv)
             rest == ExtractRefsFrom(entries, map, refs, k + 1, cv)
         IN  IF r.threw \/ rest.threw THEN Threw
             ELSE Value(r.value \o rest.value)

\* extractSlides as a whole: throws without a readable ppt/presentation.xml.
ExtractSlidesOp(entries, map, cv) ==
    LET presentationFile == ZipFile(entries, PresentationPath)
    IN  IF presentationFile = Null THEN Threw
        ELSE IF presentationFile[1].corrupt THEN Threw
        ELSE ExtractRefsFrom(entries, map, presentationFile[1].refs, 1, cv)

\* parseSlideRelations and extractSlides of a parser that has just opened
\* the archive.
DirectParse(entries, cv) ==
    LET parsed == ParseSlideRelationsOp(entries, <<>>)
    IN  IF parsed.threw THEN Threw ELSE ExtractSlidesOp(entries, parsed.value, cv)

----------------------------------------------------------------------------
(* The remote conversion: the pptx-to-images route and its client          *)
(* convertToImagesAndExtract.                                              *)

Response(ok, fallback, imgs, isCombinedImage) ==
    [ok |-> ok, fallback |-> fallback, images |-> imgs,
     isCombinedImage |-> isCombinedImage]

\* The route's answer when the conversion left pngs PNG files (-1: every
\* conversion method failed): status 500 with the fallback flag, or the images
\* as data URIs, flagged as combined when there is exactly one.
PptxToImagesRoute(pngs) ==
    IF pngs <= 0
    THEN Response(FALSE, TRUE, <<>>, FALSE)
    ELSE Response(TRUE, FALSE,
                  [k \in 1..pngs |->
                      DataUri("image/png",
                              "page-" \o ToString(k) \o "-of-" \o ToString(pngs))],
                  pngs = 1)

\* What fetch gives: a rejection (null here), the route's answer, or the
\* answer of a service that reports unavailability with an OK status.
FetchOutcomes ==
    {Null, Some(Response(TRUE, TRUE, <<>>, FALSE))}
    \cup {Some(PptxToImagesRoute(pngs)) : pngs \in -1..MaxImages}

\* The record made of image `index` (0-based) of the response.
ImageSlide(index, imageData) ==
    [id |-> "slide-" \o ToString(index + 1), imageUrl |-> imageData,
     startTime |-> index * SlideDuration, duration |-> SlideDuration,
     text |-> "Slide " \o ToString(index + 1) \o " content",
     slideNumber |-> index + 1]

\* A client that makes a slide of a combined image as of any other.
ConvertToImagesAndExtractOpKeepingCombined(fetched) ==
    IF fetched = Null THEN Threw
    ELSE LET res == fetched[1]
         IN  IF ~res.ok THEN Threw
             ELSE IF res.fallback THEN Value(<<>>)
             ELSE Value([k \in 1..Len(res.images) |-> ImageSlide(k - 1, res.images[k])])

ConvertToImagesAndExtractOp(fetched) ==
    IF fetched = Null THEN Threw
    ELSE LET res == fetched[1]
         IN  IF ~res.ok THEN Threw
             ELSE IF res.fallback THEN Value(<<>>)
             ELSE IF res.isCombinedImage /\ Len(res.images) = 1 THEN Value(<<>>)
             ELSE Value([k \in 1..Len(res.images) |-> ImageSlide(k - 1, res.images[k])])

\* A splice that pairs the two lists and stops at the shorter one.
CombineTruncating(imgSlides, textSlides) ==
    [k \in 1..(IF Len(textSlides) < Len(imgSlides) THEN Len(textSlides)
                ELSE Len(imgSlides)) |->
        [imgSlides[k] EXCEPT !.text = textSlides[k].text]]

\* imageSlides.map((imageSlide, index) => ({...imageSlide, text, slideNumber}))
CombineImageAndTextSlides(imgSlides, textSlides) ==
    [k \in 1..Len(imgSlides) |->
        [imgSlides[k] EXCEPT
            !.text = IF k <= Len(textSlides) THEN textSlides[k].text ELSE @,
            !.slideNumber = IF @ # 0 THEN @ ELSE k]]

(* The PDF conversion of the basic variant: what convertToPDFAndExtract    *)
(* meets (the response, whether pdf.js loads the document, its page count, *)
(* whether a page canvas has a context) and what it gives.                 *)

PdfRun(ok, fallback, loads, context, numPages) ==
    [ok |-> ok, fallback |-> fallback, loads |-> loads, context |-> context,
     numPages |-> numPages]

PdfRuns ==
    {Null, Some(PdfRun(FALSE, FALSE, FALSE, FALSE, 0)),
     Some(PdfRun(TRUE, TRUE, FALSE, FALSE, 0)),
     Some(PdfRun(TRUE, FALSE, FALSE, FALSE, 0)),
     Some(PdfRun(TRUE, FALSE, TRUE, FALSE, 1))}
    \cup {Some(PdfRun(TRUE, FALSE, TRUE, TRUE, n)) : n \in 0..MaxImages}

PdfSlide(pageNum) ==
    [id |-> "slide-" \o ToString(pageNum),
     imageUrl |-> DataUri("image/png", "pdf-page-" \o ToString(pageNum)),
     startTime |-> (pageNum - 1) * SlideDuration, duration |-> SlideDuration,
     text |-> "pdf text " \o ToString(pageNum), slideNumber |-> pageNum]

ConvertToPDFAndExtractOp(run) ==
    IF run = Null THEN Threw
    ELSE LET r == run[1]
         IN  IF ~r.ok THEN Threw
             ELSE IF r.fallback THEN Value(<<>>)
             ELSE IF ~r.loads THEN Threw
             ELSE IF r.numPages > 0 /\ ~r.context THEN Threw
             ELSE Value([k \in 1..r.numPages |-> PdfSlide(k)])

----------------------------------------------------------------------------
(* The files parsePPTX is called with.                                     *)

OfficeRelationships ==
    "http://schemas.openxmlformats.org/officeDocument/2006/relationships/"

Relationship(id, target, type) ==
    [Id |-> id, Target |-> target, Type |-> OfficeRelationships \o type]

MasterRel(id) == Relationship(id, "slideMasters/slideMaster1.xml", "slideMaster")

RelsFull ==
    << Relationship("rId1", "slides/slide1.xml", "slide"),
       Relationship("rId2", "slides/slide2.xml", "slide"),
       MasterRel("rId3"),
       Relationship("rId4", "theme/theme1.xml", "theme") >>

\* No relationship for rId2.
RelsNoSecond ==
    << MasterRel("rId3"), Relationship("rId1", "slides/slide1.xml", "slide") >>

\* rId2 is the slide master's relationship.
RelsMasterSecond ==
    << Relationship("rId1", "slides/slide1.xml", "slide"), MasterRel("rId2") >>

RelsChoices == {RelsFull, RelsNoSecond, RelsMasterSecond}

\* <p:sldId id="256" r:id="rId1"/> and <sldId id="rId2"/>
RefPool == { [rid |-> "rId1", id |-> "256"], [rid |-> "", id |-> "rId2"] }

Manifests == UNION { [1..n -> RefPool] : n \in 0..MaxRefs }

NoRefs == <<>>
NoRels == <<>>
NoRuns == <<>>

PresentationEntry(corrupt, refs) ==
    Entry(PresentationPath, corrupt, refs, NoRels, NoRuns, "")

RelsEntry(rels) == Entry(RelsPath, FALSE, NoRefs, rels, NoRuns, "")

SlideEntry(name, corrupt, runs) == Entry(name, corrupt, NoRefs, NoRels, runs, "")

MediaEntry(name, data) == Entry(name, FALSE, NoRefs, NoRels, NoRuns, data)

Slide1Choices ==
    { <<>>,
      << SlideEntry("ppt/slides/slide1.xml", FALSE, <<"  Hello  ", "", "World">>) >>,
      << SlideEntry("ppt/slides/slide1.xml", TRUE, NoRuns) >> }

Slide2Choices ==
    { <<>>, << SlideEntry("ppt/slides/slide2.xml", FALSE, NoRuns) >> }

MasterEntries ==
    << SlideEntry("ppt/slideMasters/slideMaster1.xml", FALSE,
                  <<"\t", "Click to edit ">>) >>

TargetedMedia == << MediaEntry("ppt/media/image1.png", "aW1hZ2Ux") >>

SlideScopedMedia ==
    << MediaEntry("ppt/slides/media/photo.jpg", "cGhvdG8="),
       MediaEntry("ppt/slides/media/chart.PNG", "Y2hhcnQ=") >>

\* Slide-scoped media ahead of the file named after the first slide.
MixedMedia == SlideScopedMedia \o TargetedMedia

MediaChoices == {<<>>, TargetedMedia, SlideScopedMedia}

PptxFile(opens, entries) == [name |-> "deck.pptx", opens |-> opens, entries |-> entries]

Package(refs, relsPart, s1, s2, media) ==
    PptxFile(TRUE, <<PresentationEntry(FALSE, refs)>> \o relsPart \o s1
                   \o MasterEntries \o s2 \o media)

Slide1Ok == CHOOSE s1 \in Slide1Choices : s1 # <<>> /\ ~s1[1].corrupt
Slide2Ok == CHOOSE s2 \in Slide2Choices : s2 # <<>>

Reverse(s) == [k \in 1..Len(s) |-> s[Len(s) + 1 - k]]

\* Packages without media: every manifest and relationships part.
\* The two slide parts of a package, at least one of them sound.
SlideParts ==
    { p \in Slide1Choices \X Slide2Choices : p[1] = Slide1Ok \/ p[2] = Slide2Ok }

PlainPackages ==
    { Package(refs, relsPart, p[1], p[2], <<>>) :
        refs \in Manifests,
        relsPart \in {<<>>} \cup { <<RelsEntry(rels)>> : rels \in RelsChoices },
        p \in SlideParts }

\* Complete packages with media files, in either physical order.
MediaPackages ==
    { Package(refs, <<RelsEntry(rels)>>, Slide1Ok, Slide2Ok, media) :
        refs \in Manifests, rels \in {RelsFull, RelsNoSecond},
        media \in { m \in MediaChoices \cup { Reverse(m) : m \in MediaChoices } : m # <<>> }
                  \cup {MixedMedia} }

Packages == PlainPackages \cup MediaPackages

\* Not an archive; an archive without, or with an unreadable, presentation part.
BrokenFiles ==
    { PptxFile(FALSE, <<>>),
      PptxFile(TRUE, <<RelsEntry(RelsFull)>> \o MasterEntries),
      PptxFile(TRUE, <<PresentationEntry(TRUE, NoRefs), RelsEntry(RelsFull)>>
                     \o MasterEntries) }

Files == Packages \cup BrokenFiles

----------------------------------------------------------------------------
(* One call of parsePowerPointFile: a new PPTXParser and parsePPTX(file).  *)

\* No slide is being rendered step by step.
NoRendering ==
    /\ xmlDoc = <<>>
    /\ slideInfo = <<>>
    /\ fillText = <<>>
    /\ drawnText = <<>>
    /\ totalLines = 0

\* setProcessingStep(`Converting ${file.name} to PDF and extracting slides...`)
Converting == "Converting deck.pptx to PDF and extracting slides..."

\* Nothing is stored, and no second call is running.
NoUpload ==
    /\ allSlides = <<>>
    /\ processingStep = Converting
    /\ parsers = <<>>
    /\ running = <<>>

ParseErrorMessage ==
    "Failed to parse PowerPoint file. Please ensure it's a valid .pptx file."

NoCalls == [remote |-> 0, pdf |-> 0, load |-> 0, rels |-> 0, extract |-> 0]

Init ==
    /\ variant \in {"rich", "basic"}
    /\ file \in Files
    /\ canvas \in [detailed : BOOLEAN, plain : BOOLEAN]
    /\ zip = Null
    /\ slideRelations = <<>>
    /\ pc = "convert"
    /\ phase = "none"
    /\ i = 0
    /\ slides = <<>>
    /\ imageSlides = <<>>
    /\ remote = "none"
    /\ outcome = "pending"
    /\ result = <<>>
    /\ error = ""
    /\ cause = ""
    /\ calls = NoCalls
    /\ NoRendering
    /\ NoUpload

\* return from parsePPTX
Return(value) ==
    /\ pc' = "done"
    /\ outcome' = "returned"
    /\ result' = value
    /\ UNCHANGED <<error, cause>>

\* An outer catch that answers an exception with an empty list.
SwallowError(thrownBy) ==
    /\ pc' = "done"
    /\ outcome' = "returned"
    /\ result' = <<>>
    /\ cause' = thrownBy
    /\ UNCHANGED error

\* The outer catch of parsePPTX: the one user-facing error.
CatchAll(thrownBy) ==
    /\ pc' = "done"
    /\ outcome' = "thrown"
    /\ error' = ParseErrorMessage
    /\ cause' = thrownBy
    /\ UNCHANGED result

\* An orchestrator that reports a conversion without slides to its caller.
SurfaceConversionError ==
    /\ pc' = "done"
    /\ outcome' = "thrown"
    /\ error' = ParseErrorMessage
    /\ cause' = "conversion"
    /\ UNCHANGED <<phase, result>>

\* Both variants go on to direct parsing as the last resort.
FallBackToDirectParsing ==
    /\ pc' = "load"
    /\ phase' = "fallback"
    /\ UNCHANGED <<outcome, result, error, cause>>

\* An exception inside direct parsing.  In the rich variant the text extraction
\* that follows a successful image conversion sits inside the try block of the
\* image conversion, whose catch goes on to the direct-parsing-only path.
DirectParsingThrows(thrownBy) ==
    IF variant = "rich" /\ phase = "combine"
    THEN FallBackToDirectParsing
    ELSE CatchAll(thrownBy) /\ UNCHANGED phase

\* await this.convertToImagesAndExtract(file), and what parsePPTX does with it.
ConvertToImagesAndExtract ==
    /\ pc = "convert"
    /\ \E fetched \in FetchOutcomes :
         LET r == ConvertToImagesAndExtractOp(fetched)
             got == IF r.threw THEN <<>> ELSE r.value
         IN  /\ calls' = [calls EXCEPT !.remote = @ + 1]
             /\ remote' = IF r.threw THEN "threw"
                          ELSE IF got # <<>> THEN "images"
                          ELSE IF fetched[1].fallback THEN "empty" ELSE "combined"
             /\ imageSlides' = got
             /\ IF got # <<>>
                THEN IF variant = "rich"
                     THEN /\ pc' = "load"
                          /\ phase' = "combine"
                          /\ UNCHANGED <<outcome, result, error, cause>>
                     ELSE Return(got) /\ UNCHANGED phase
                ELSE IF variant = "rich"
                     THEN FallBackToDirectParsing
                     ELSE /\ pc' = "pdf"
                          /\ UNCHANGED <<phase, outcome, result, error, cause>>
    /\ UNCHANGED <<variant, file, canvas, zip, slideRelations, i, slides>>

\* await fetch('/api/convert/pptx-to-images', ...) with a service that never
\* answers: the request carries no signal and no timer, the promise never
\* settles and parsePPTX stays suspended at its first await.
FetchNeverSettles ==
    /\ pc = "convert"
    /\ pc' = "awaiting"
    /\ remote' = "pending"
    /\ calls' = [calls EXCEPT !.remote = @ + 1]
    /\ UNCHANGED <<variant, file, canvas, zip, slideRelations, phase, i, slides,
                   imageSlides, outcome, result, error, cause>>

\* Basic variant: await this.convertToPDFAndExtract(file).
ConvertToPDFAndExtract ==
    /\ pc = "pdf"
    /\ \E run \in PdfRuns :
         LET r == ConvertToPDFAndExtractOp(run)
         IN  IF ~r.threw /\ r.value # <<>>
             THEN Return(r.value) /\ UNCHANGED phase
             ELSE FallBackToDirectParsing
    /\ calls' = [calls EXCEPT !.pdf = @ + 1]
    /\ UNCHANGED <<variant, file, canvas, zip, slideRelations, i, slides,
                   imageSlides, remote>>

\* this.zip = await JSZip.loadAsync(file)
LoadZip ==
    /\ pc = "load"
    /\ calls' = [calls EXCEPT !.load = @ + 1]
    /\ IF file.opens
       THEN /\ zip' = Some(file.entries)
            /\ pc' = "rels"
            /\ UNCHANGED <<phase, outcome, result, error, cause>>
       ELSE DirectParsingThrows("archive") /\ UNCHANGED zip
    /\ UNCHANGED <<variant, file, canvas, slideRelations, i, slides, imageSlides,
                   remote>>

\* await this.parseSlideRelations()
ParseSlideRelations ==
    /\ pc = "rels"
    /\ calls' = [calls EXCEPT !.rels = @ + 1]
    /\ LET r == ParseSlideRelationsOp(zip[1], slideRelations)
       IN  IF r.threw
           THEN DirectParsingThrows("relationships") /\ UNCHANGED slideRelations
           ELSE /\ slideRelations' = r.value
                /\ pc' = "slides"
                /\ UNCHANGED <<phase, outcome, result, error, cause>>
    /\ UNCHANGED <<variant, file, canvas, zip, i, slides, imageSlides, remote>>

\* The manifest extractSlides reads, once ppt/presentation.xml was found.
SlideIds == ZipFile(zip[1], PresentationPath)[1].refs

\* extractSlides up to its loop: the presentation part is looked up and read.
ExtractSlides ==
    /\ pc = "slides"
    /\ calls' = [calls EXCEPT !.extract = @ + 1]
    /\ LET presentationFile == ZipFile(zip[1], PresentationPath)
       IN  IF presentationFile = Null \/ presentationFile[1].corrupt
           THEN DirectParsingThrows("presentation") /\ UNCHANGED <<i, slides>>
           ELSE /\ i' = 0
                /\ slides' = <<>>
                /\ pc' = "loop"
                /\ UNCHANGED <<phase, outcome, result, error, cause>>
    /\ UNCHANGED <<variant, file, canvas, zip, slideRelations, imageSlides, remote>>

\* A loop that numbers the records by their position in the output.
ExtractSlideDense ==
    /\ pc = "loop"
    /\ i < Len(SlideIds)
    /\ LET r == ExtractRef(zip[1], slideRelations, SlideIds[i + 1], Len(slides) + 1,
                           canvas)
       IN  /\ slides' = slides \o r.value
           /\ i' = i + 1
           /\ UNCHANGED <<pc, phase, outcome, result, error, cause>>
    /\ UNCHANGED <<variant, file, canvas, zip, slideRelations, imageSlides, remote, calls>>

\* A loop that ends at the first slide whose extraction fails.
ExtractSlideStopping ==
    /\ pc = "loop"
    /\ i < Len(SlideIds)
    /\ LET r == ExtractRef(zip[1], slideRelations, SlideIds[i + 1], i + 1, canvas)
           rId == RefId(SlideIds[i + 1])
       IN  /\ slides' = slides \o r.value
           /\ i' = IF rId \in DOMAIN slideRelations /\ r.value = <<>>
                   THEN Len(SlideIds) ELSE i + 1
           /\ UNCHANGED <<pc, phase, outcome, result, error, cause>>
    /\ UNCHANGED <<variant, file, canvas, zip, slideRelations, imageSlides, remote,
                   calls>>

\* One iteration: for (let i = 0; i < slideIds.length; i++) {...}
ExtractSlide ==
    /\ pc = "loop"
    /\ i < Len(SlideIds)
    /\ LET r == ExtractRef(zip[1], slideRelations, SlideIds[i + 1], i + 1, canvas)
       IN  IF r.threw
           THEN DirectParsingThrows("slide") /\ UNCHANGED <<i, slides>>
           ELSE /\ slides' = slides \o r.value
                /\ i' = i + 1
                /\ UNCHANGED <<pc, phase, outcome, result, error, cause>>
    /\ UNCHANGED <<variant, file, canvas, zip, slideRelations, imageSlides, remote, calls>>

RECURSIVE Concat(_)
Concat(seqs) == IF seqs = <<>> THEN <<>> ELSE Head(seqs) \o Concat(Tail(seqs))

\* An extractSlides that returns the records in the order in which the slide
\* parts are stored in the archive.
ReturnSlidesInArchiveOrder ==
    /\ pc = "loop"
    /\ i = Len(SlideIds)
    /\ LET partOf(s) == "ppt/" \o slideRelations[RefId(SlideIds[s.slideNumber])]
           stored == Concat([k \in 1..Len(zip[1]) |->
                               SelectSeq(slides, LAMBDA s : partOf(s) = zip[1][k].name)])
       IN  Return(IF phase = "combine"
                  THEN CombineImageAndTextSlides(imageSlides, stored)
                  ELSE stored)
    /\ UNCHANGED <<variant, file, canvas, zip, slideRelations, phase, i, slides,
                   imageSlides, remote, calls>>

\* extractSlides returns; parsePPTX returns the slides, or the images with
\* the slides' text.
ReturnSlides ==
    /\ pc = "loop"
    /\ i = Len(SlideIds)
    /\ Return(IF phase = "combine"
              THEN CombineImageAndTextSlides(imageSlides, slides)
              ELSE slides)
    /\ UNCHANGED <<variant, file, canvas, zip, slideRelations, phase, i, slides,
                   imageSlides, remote, calls>>

\* handleSlidesUpload after `await parsePowerPointFile(file)` for the one
\* .pptx file of the upload: slideNumber becomes index + 1, the rest of each
\* record is kept, and setSlides stores the array.
Renumbered(slideData) ==
    [index \in 1..Len(slideData) |-> [slideData[index] EXCEPT !.slideNumber = index]]

StoreSlides ==
    /\ pc = "done"
    /\ outcome = "returned"
    /\ processingStep = Converting
    /\ allSlides' = Renumbered(result)
    /\ processingStep' = "processed"
    /\ UNCHANGED <<parserVars, rendererVars, parsers, running>>

\* The catch of handleSlidesUpload: nothing is stored.
ReportUploadError ==
    /\ pc = "done"
    /\ outcome = "thrown"
    /\ processingStep = Converting
    /\ processingStep' = "Error processing files. Please try again."
    /\ UNCHANGED <<parserVars, rendererVars, allSlides, parsers, running>>

Next ==
    \/ ConvertToImagesAndExtract /\ UNCHANGED asideVars
    \/ FetchNeverSettles /\ UNCHANGED asideVars
    \/ ConvertToPDFAndExtract /\ UNCHANGED asideVars
    \/ LoadZip /\ UNCHANGED asideVars
    \/ ParseSlideRelations /\ UNCHANGED asideVars
    \/ ExtractSlides /\ UNCHANGED asideVars
    \/ ExtractSlide /\ UNCHANGED asideVars
    \/ ReturnSlides /\ UNCHANGED asideVars

Spec == Init /\ [][Next]_vars

\* The call as handleSlidesUpload makes it, with what follows its await.
NextUpload ==
    \/ Next
    \/ StoreSlides
    \/ ReportUploadError

SpecUpload == Init /\ [][NextUpload]_vars

\* The same call with the event loop running every continuation that is ready.
SpecLive == Spec /\ WF_vars(Next)

----------------------------------------------------------------------------
(* Direct package parsing alone, on an archive whose physical order is any *)
(* permutation of the package's entry list.                                *)

OrderFiles ==
    { PptxFile(TRUE, <<PresentationEntry(FALSE, refs), RelsEntry(rels)>>
                     \o Slide1Ok \o s2 \o media) :
        refs \in [1..MaxRefs -> RefPool], rels \in {RelsFull, RelsNoSecond},
        s2 \in {Slide2Ok}, media \in {<<>>, TargetedMedia} }

InitOrder ==
    /\ variant = "rich"
    /\ file \in OrderFiles
    /\ canvas = [detailed |-> TRUE, plain |-> TRUE]
    /\ zip = Null
    /\ slideRelations = <<>>
    /\ pc = "load"
    /\ phase = "fallback"
    /\ i = 0
    /\ slides = <<>>
    /\ imageSlides = <<>>
    /\ remote = "threw"
    /\ outcome = "pending"
    /\ result = <<>>
    /\ error = ""
    /\ cause = ""
    /\ calls = [NoCalls EXCEPT !.remote = 1]
    /\ NoRendering
    /\ NoUpload

\* JSZip.loadAsync of the same entries stored in another physical order.
LoadZipAnyOrder ==
    /\ pc = "load"
    /\ file.opens
    /\ \E p \in Permutations(1..Len(file.entries)) :
         zip' = Some([k \in 1..Len(file.entries) |-> file.entries[p[k]]])
    /\ pc' = "rels"
    /\ calls' = [calls EXCEPT !.load = @ + 1]
    /\ UNCHANGED <<variant, file, canvas, slideRelations, phase, i, slides,
                   imageSlides, remote, outcome, result, error, cause>>

NextOrder ==
    \/ LoadZipAnyOrder /\ UNCHANGED asideVars
    \/ ParseSlideRelations /\ UNCHANGED asideVars
    \/ ExtractSlides /\ UNCHANGED asideVars
    \/ ExtractSlide /\ UNCHANGED asideVars
    \/ ReturnSlides /\ UNCHANGED asideVars

SpecOrder == InitOrder /\ [][NextOrder]_vars

----------------------------------------------------------------------------
(* A second call of parsePPTX on a PPTXParser that has parsed another file *)
(* before: zip and slideRelations are fields of the parser, and no call    *)
(* clears the map.                                                         *)

\* The files of the earlier call: complete packages, one per relationships part.
EarlierFiles ==
    { Package(<<>>, <<RelsEntry(rels)>>, Slide1Ok, Slide2Ok, <<>>) : rels \in RelsChoices }

\* The second call, at its fallback to direct parsing, with the fields as the
\* earlier call's direct parsing left them.
InitReuse ==
    /\ variant = "rich"
    /\ file \in PlainPackages
    /\ canvas = [detailed |-> TRUE, plain |-> TRUE]
    /\ \E earlier \in EarlierFiles :
         /\ zip = Some(earlier.entries)
         /\ slideRelations = ParseSlideRelationsOp(earlier.entries, <<>>).value
    /\ pc = "load"
    /\ phase = "fallback"
    /\ i = 0
    /\ slides = <<>>
    /\ imageSlides = <<>>
    /\ remote = "threw"
    /\ outcome = "pending"
    /\ result = <<>>
    /\ error = ""
    /\ cause = ""
    /\ calls = [NoCalls EXCEPT !.remote = 1]
    /\ NoRendering
    /\ NoUpload

NextReuse ==
    \/ LoadZip /\ UNCHANGED asideVars
    \/ ParseSlideRelations /\ UNCHANGED asideVars
    \/ ExtractSlides /\ UNCHANGED asideVars
    \/ ExtractSlide /\ UNCHANGED asideVars
    \/ ReturnSlides /\ UNCHANGED asideVars

SpecReuse == InitReuse /\ [][NextReuse]_vars

----------------------------------------------------------------------------
----------------------------------------------------------------------------
(* The geometry-driven renderer on one slide document: extractSlideInfo,   *)
(* one step per paragraph, then createDetailedCanvasSlide, one step per    *)
(* text element.  A paragraph is what the code reads of it: its            *)
(* textContent, whether closest('sp') finds a shape, the type of the       *)
(* shape's placeholder, the sz of its first run properties (0: none) and   *)
(* the y offset of the shape's transform (<<>>: none).  Every text fits    *)
(* its box, so that an element is one line.                                *)

Paragraph(text, inShape, ph, sz, offY) ==
    [text |-> text, inShape |-> inShape, ph |-> ph, sz |-> sz, offY |-> offY]

ParagraphPool ==
    { Paragraph("  ", TRUE, "title", 0, Some(400000)),
      Paragraph("Quarterly Report", TRUE, "ctrTitle", 4400, Some(400000)),
      Paragraph("Agenda", TRUE, "", 2800, Some(1500000)),
      Paragraph(" First point ", TRUE, "body", 2000, Some(3600000)),
      Paragraph("Cell text", FALSE, "", 2400, <<>>),
      Paragraph("Source: survey", TRUE, "", 1200, Some(6858000)) }

MaxParagraphs == 3

\* Slide documents: up to MaxParagraphs different paragraphs in any order.
SlideDocuments ==
    { d \in UNION { [1..n -> ParagraphPool] : n \in 0..MaxParagraphs } :
        \A a, b \in DOMAIN d : a # b => d[a] # d[b] }

TitleTypes == {"title", "ctrTitle", "subTitle"}

\* isTitleElement(element, parent), element being the k-th of
\* querySelectorAll('a\\:p, p')
IsTitleElement(paragraphs, k) ==
    LET element == paragraphs[k]
    IN  IF ~element.inShape THEN FALSE
        ELSE IF element.ph \in TitleTypes THEN TRUE
        ELSE IF element.sz > 2000 THEN TRUE
        ELSE k = 1

\* extractElementPosition(parent).y
PositionY(element) ==
    IF ~element.inShape \/ element.offY = <<>> THEN 100 ELSE element.offY[1]

EmptySlideInfo == [textElements |-> <<>>, title |-> "", content |-> <<>>]

SlideLabel == "Slide " \o ToString(xmlDoc[1].slideNumber)

InitInfo ==
    /\ variant = "rich"
    /\ file = PptxFile(FALSE, <<>>)
    /\ canvas \in { [detailed |-> d, plain |-> TRUE] : d \in BOOLEAN }
    /\ zip = Null
    /\ slideRelations = <<>>
    /\ pc = "info"
    /\ phase = "none"
    /\ i = 0
    /\ slides = <<>>
    /\ imageSlides = <<>>
    /\ remote = "none"
    /\ outcome = "pending"
    /\ result = <<>>
    /\ error = ""
    /\ cause = ""
    /\ calls = NoCalls
    /\ \E d \in SlideDocuments, n \in 1..2 :
         xmlDoc = Some([slideNumber |-> n, paragraphs |-> d])
    /\ slideInfo = Some(EmptySlideInfo)
    /\ fillText = <<>>
    /\ drawnText = <<>>
    /\ totalLines = 0
    /\ NoUpload

\* One iteration of textElements.forEach in extractSlideInfo.
ExtractTextElement ==
    /\ pc = "info"
    /\ i < Len(xmlDoc[1].paragraphs)
    /\ LET element == xmlDoc[1].paragraphs[i + 1]
           text == Trim(element.text)
           isTitle == IsTitleElement(xmlDoc[1].paragraphs, i + 1)
           info == slideInfo[1]
       IN  slideInfo' =
               IF text = "" THEN slideInfo
               ELSE Some([textElements |->
                              Append(info.textElements,
                                     [text |-> text, y |-> PositionY(element),
                                      index |-> i, isTitle |-> isTitle]),
                          title |-> IF isTitle THEN text ELSE info.title,
                          content |-> IF isTitle THEN info.content
                                      ELSE Append(info.content, text)])
    /\ i' = i + 1
    /\ UNCHANGED <<variant, file, canvas, zip, slideRelations, pc, phase, slides,
                   imageSlides, remote, outcome, result, error, cause, calls,
                   xmlDoc, fillText>>

\* if (!slideInfo.title && slideInfo.textElements.length > 0) ...; return slideInfo
ReturnSlideInfo ==
    /\ pc = "info"
    /\ i = Len(xmlDoc[1].paragraphs)
    /\ LET info == slideInfo[1]
       IN  slideInfo' = IF info.title = "" /\ info.textElements # <<>>
                        THEN Some([info EXCEPT !.title = info.textElements[1].text])
                        ELSE slideInfo
    /\ pc' = "canvas"
    /\ UNCHANGED <<variant, file, canvas, zip, slideRelations, phase, i, slides,
                   imageSlides, remote, outcome, result, error, cause, calls,
                   xmlDoc, fillText>>

\* createDetailedCanvasSlide without a context: return ''
ReturnEmptyImage ==
    /\ pc = "canvas"
    /\ ~canvas.detailed
    /\ pc' = "drawn"
    /\ result' = <<"">>
    /\ UNCHANGED <<variant, file, canvas, zip, slideRelations, phase, i, slides,
                   imageSlides, remote, outcome, error, cause, calls,
                   xmlDoc, slideInfo, fillText>>

\* The slide number and, if (slideInfo.title), the title.
DrawHeader ==
    /\ pc = "canvas"
    /\ canvas.detailed
    /\ fillText' = <<[text |-> SlideLabel, as |-> "label"]>>
                   \o (IF slideInfo[1].title # ""
                       THEN <<[text |-> slideInfo[1].title, as |-> "title"]>>
                       ELSE <<>>)
    /\ pc' = "elements"
    /\ i' = 0
    /\ UNCHANGED <<variant, file, canvas, zip, slideRelations, phase, slides,
                   imageSlides, remote, outcome, result, error, cause, calls,
                   xmlDoc, slideInfo>>

CanvasHeight == 1080
SlideHeightEMU == 7200000

Max(a, b) == IF a >= b THEN a ELSE b
Min(a, b) == IF a <= b THEN a ELSE b

\* clampedY of an element, rounded down: the comparisons are with integers.
\* Both dimensions are divided by 360 to keep the product in 32 bits.
ClampedY(y) ==
    Max(200, Min((y * (CanvasHeight \div 360)) \div (SlideHeightEMU \div 360),
                 CanvasHeight - 100))

\* One iteration of slideInfo.textElements.forEach in createDetailedCanvasSlide.
DrawTextElement ==
    /\ pc = "elements"
    /\ i < Len(slideInfo[1].textElements)
    /\ LET textElement == slideInfo[1].textElements[i + 1]
       IN  fillText' =
               IF textElement.isTitle /\ slideInfo[1].title # "" THEN fillText
               ELSE IF ClampedY(textElement.y) < CanvasHeight - 100
                    THEN Append(fillText, [text |-> textElement.text, as |-> "body"])
                    ELSE fillText
    /\ i' = i + 1
    /\ UNCHANGED <<variant, file, canvas, zip, slideRelations, pc, phase, slides,
                   imageSlides, remote, outcome, result, error, cause, calls,
                   xmlDoc, slideInfo>>

\* The footer, and canvas.toDataURL
DrawFooter ==
    /\ pc = "elements"
    /\ i = Len(slideInfo[1].textElements)
    /\ fillText' = Append(fillText, [text |-> SlideLabel, as |-> "footer"])
    /\ pc' = "drawn"
    /\ result' = <<CreateDetailedCanvasSlide(xmlDoc[1].slideNumber, canvas)>>
    /\ UNCHANGED <<variant, file, canvas, zip, slideRelations, phase, i, slides,
                   imageSlides, remote, outcome, error, cause, calls,
                   xmlDoc, slideInfo>>

NextInfo ==
    \/ ExtractTextElement /\ UNCHANGED <<textVars, uploadVars>>
    \/ ReturnSlideInfo /\ UNCHANGED <<textVars, uploadVars>>
    \/ ReturnEmptyImage /\ UNCHANGED <<textVars, uploadVars>>
    \/ DrawHeader /\ UNCHANGED <<textVars, uploadVars>>
    \/ DrawTextElement /\ UNCHANGED <<textVars, uploadVars>>
    \/ DrawFooter /\ UNCHANGED <<textVars, uploadVars>>

SpecInfo == InitInfo /\ [][NextInfo]_vars

----------------------------------------------------------------------------
(* createCanvasSlide drawing a text.  The text is the array of its         *)
(* paragraphs (split at line breaks), a paragraph the array of its words   *)
(* (split at spaces), a word its letters and the width measureText gives   *)
(* it in the 28px font.  The loop over the paragraphs is one step per      *)
(* paragraph.                                                              *)

Word(text, width) == [text |-> text, width |-> width]

SpaceWidth == 8

\* ctx.measureText(line).width of words joined by single spaces.
RECURSIVE MeasureText(_)
MeasureText(words) ==
    IF words = <<>> THEN 0
    ELSE Head(words).width + (IF Len(words) > 1 THEN SpaceWidth ELSE 0)
         + MeasureText(Tail(words))

\* words.forEach(...) and the last line: the lines of a paragraph, each as
\* the array of its words.
RECURSIVE WrapFrom(_, _, _, _)
WrapFrom(words, currentLine, lines, maxWidth) ==
    IF words = <<>>
    THEN (IF currentLine # <<>> THEN Append(lines, currentLine) ELSE lines)
    ELSE LET testLine == Append(currentLine, Head(words))
         IN  IF MeasureText(testLine) > maxWidth /\ currentLine # <<>>
             THEN WrapFrom(Tail(words), <<Head(words)>>, Append(lines, currentLine),
                           maxWidth)
             ELSE WrapFrom(Tail(words), testLine, lines, maxWidth)

Wrap(words, maxWidth) == WrapFrom(words, <<>>, <<>>, maxWidth)

LineText(words) == Join([k \in 1..Len(words) |-> words[k].text], " ")

CanvasWidth == 1920
FirstLineY == 180
LineHeight == 36

MaxTextWidth == CanvasWidth - 200

\* Math.floor((canvas.height - currentY - 100) / lineHeight)
MaxLines == (CanvasHeight - FirstLineY - 100) \div LineHeight

\* Paragraphs of n words too wide to share a line, and one of short words.
WideParagraph(n) == [k \in 1..n |-> Word("wide" \o ToString(k), 1000)]

ShortParagraph == << Word("a", 600), Word("b", 600), Word("c", 600), Word("d", 600) >>

BlankParagraph == <<>>

TextParagraphs ==
    { BlankParagraph, ShortParagraph } \cup
    { WideParagraph(n) : n \in (MaxLines - 2)..(MaxLines + 1) }

MaxTextParagraphs == 2

SlideTexts == UNION { [1..n -> TextParagraphs] : n \in 0..MaxTextParagraphs }

\* slideText.split('\n').filter(p => p.trim())
FilledParagraphs(text) == SelectSeq(text, LAMBDA paragraph : paragraph # BlankParagraph)

InitCanvas ==
    /\ variant = "rich"
    /\ file = PptxFile(FALSE, <<>>)
    /\ canvas \in { [detailed |-> FALSE, plain |-> c] : c \in BOOLEAN }
    /\ zip = Null
    /\ slideRelations = <<>>
    /\ pc = "canvas"
    /\ phase = "none"
    /\ i = 0
    /\ slides = <<>>
    /\ imageSlides = <<>>
    /\ remote = "none"
    /\ outcome = "pending"
    /\ result = <<>>
    /\ error = ""
    /\ cause = ""
    /\ calls = NoCalls
    /\ xmlDoc = Some([slideNumber |-> 1, paragraphs |-> <<>>])
    /\ slideInfo = <<>>
    /\ fillText = <<>>
    /\ drawnText \in SlideTexts
    /\ totalLines = 0
    /\ NoUpload

\* No context: throw new Error('Failed to create canvas slide')
ThrowNoContext ==
    /\ pc = "canvas"
    /\ ~canvas.plain
    /\ pc' = "drawn"
    /\ outcome' = "thrown"
    /\ error' = "Failed to create canvas slide"
    /\ UNCHANGED <<variant, file, canvas, zip, slideRelations, phase, i, slides,
                   imageSlides, remote, result, cause, calls,
                   xmlDoc, slideInfo, fillText, drawnText, totalLines>>

\* The slide number; then the text branch or the placeholder branch.
DrawSlideNumber ==
    /\ pc = "canvas"
    /\ canvas.plain
    /\ fillText' = <<[text |-> SlideLabel, as |-> "label", y |-> 80]>>
    /\ pc' = IF FilledParagraphs(drawnText) # <<>> THEN "paragraphs" ELSE "placeholder"
    /\ UNCHANGED <<variant, file, canvas, zip, slideRelations, phase, i, slides,
                   imageSlides, remote, outcome, result, error, cause, calls,
                   xmlDoc, slideInfo, drawnText, totalLines>>

\* The lines of a paragraph that are drawn when `used` lines are used.
RECURSIVE DrawLines(_, _, _)
DrawLines(lines, used, maxLines) ==
    IF lines = <<>> \/ used >= maxLines THEN <<>>
    ELSE <<[text |-> LineText(Head(lines)), as |-> "line",
            y |-> FirstLineY + used * LineHeight]>>
         \o DrawLines(Tail(lines), used + 1, maxLines)

\* The body of `for (const paragraph of paragraphs)` past its break.
DrawParagraph ==
    /\ pc = "paragraphs"
    /\ i < Len(FilledParagraphs(drawnText))
    /\ totalLines < MaxLines
    /\ LET lines == Wrap(FilledParagraphs(drawnText)[i + 1], MaxTextWidth)
           drawn == DrawLines(lines, totalLines, MaxLines)
           used == totalLines + Len(drawn)
       IN  /\ fillText' = fillText \o drawn
           /\ totalLines' = IF used < MaxLines THEN used + 1 ELSE used
    /\ i' = i + 1
    /\ UNCHANGED <<variant, file, canvas, zip, slideRelations, pc, phase, slides,
                   imageSlides, remote, outcome, result, error, cause, calls,
                   xmlDoc, slideInfo, drawnText>>

Footer == [text |-> SlideLabel, as |-> "footer", y |-> CanvasHeight - 50]

\* After the loop or its break: the ellipsis, the footer, the record.
DrawEllipsisAndFooter ==
    /\ pc = "paragraphs"
    /\ i = Len(FilledParagraphs(drawnText)) \/ totalLines >= MaxLines
    /\ fillText' = fillText
                   \o (IF totalLines >= MaxLines
                       THEN <<[text |-> "...", as |-> "ellipsis",
                               y |-> FirstLineY + totalLines * LineHeight]>>
                       ELSE <<>>)
                   \o <<Footer>>
    /\ pc' = "drawn"
    /\ outcome' = "returned"
    /\ UNCHANGED <<variant, file, canvas, zip, slideRelations, phase, i, slides,
                   imageSlides, remote, result, error, cause, calls,
                   xmlDoc, slideInfo, drawnText, totalLines>>

\* No text: the placeholder message, the footer, the record.
DrawPlaceholder ==
    /\ pc = "placeholder"
    /\ fillText' = fillText
                   \o <<[text |-> "No content available", as |-> "placeholder",
                         y |-> CanvasHeight \div 2], Footer>>
    /\ pc' = "drawn"
    /\ outcome' = "returned"
    /\ UNCHANGED <<variant, file, canvas, zip, slideRelations, phase, i, slides,
                   imageSlides, remote, result, error, cause, calls,
                   xmlDoc, slideInfo, drawnText, totalLines>>

NextCanvas ==
    \/ ThrowNoContext /\ UNCHANGED uploadVars
    \/ DrawSlideNumber /\ UNCHANGED uploadVars
    \/ DrawParagraph /\ UNCHANGED uploadVars
    \/ DrawEllipsisAndFooter /\ UNCHANGED uploadVars
    \/ DrawPlaceholder /\ UNCHANGED uploadVars

SpecCanvas == InitCanvas /\ [][NextCanvas]_vars

----------------------------------------------------------------------------
(* extractSlideImage for slide i + 1, one step per method, on archives     *)
(* with media files named after slide numbers.  phase is the method that   *)
(* is running or has returned.                                             *)

\* Media files of the archives, in archive order; the last one is unreadable.
NamedMedia ==
    << MediaEntry("ppt/media/image1.png", "aW1hZ2Ux"),
       MediaEntry("ppt/media/image10.png", "aW1hZ2UxMA=="),
       MediaEntry("ppt/media/slide12.jpg", "c2xpZGUxMg=="),
       MediaEntry("ppt/media/slide2.jpg", "c2xpZGUy"),
       MediaEntry("ppt/slides/media/slide1.png", "c2xpZGUx"),
       MediaEntry("ppt/slides/media/photo.jpg", "cGhvdG8="),
       Entry("ppt/slides/media/slide2.png", TRUE, NoRefs, NoRels, NoRuns, "") >>

\* The media files at the positions of `kept`, in archive order.
MediaAt(kept) == SelectSeq(NamedMedia, LAMBDA e : \E k \in kept : NamedMedia[k] = e)

MediaArchives ==
    { Slide1Ok \o Slide2Ok \o MediaAt(kept) : kept \in SUBSET (1..Len(NamedMedia)) }

SlidePath(slideNumber) == "slides/slide" \o ToString(slideNumber) \o ".xml"

InitImage ==
    /\ variant = "rich"
    /\ file = PptxFile(FALSE, <<>>)
    /\ canvas \in { [detailed |-> d, plain |-> TRUE] : d \in BOOLEAN }
    /\ zip \in { Some(entries) : entries \in MediaArchives }
    /\ slideRelations = <<>>
    /\ pc = "image"
    /\ phase = "method1"
    /\ i \in 0..1
    /\ slides = <<>>
    /\ imageSlides = <<>>
    /\ remote = "none"
    /\ outcome = "pending"
    /\ result = <<>>
    /\ error = ""
    /\ cause = ""
    /\ calls = NoCalls
    /\ NoRendering
    /\ NoUpload

\* return `data:...` of a method, or return null from the catch when the
\* entry cannot be read.
ReturnImage(name) ==
    /\ pc' = "done"
    /\ outcome' = "returned"
    /\ result' = ReadImage(zip[1], name)
    /\ UNCHANGED phase

\* Method 1: the media files whose name matches the slide number.
TargetedMediaMatch ==
    /\ pc = "image"
    /\ phase = "method1"
    /\ LET mediaFiles == SelectSeq(Keys(zip[1]), LAMBDA f :
                             IsMediaFile(f) /\ IsImageFile(f) /\ MatchesSlide(f, i + 1))
       IN  IF mediaFiles # <<>>
           THEN ReturnImage(ShortestFirst(mediaFiles))
           ELSE /\ phase' = "method2"
                /\ UNCHANGED <<pc, outcome, result>>
    /\ UNCHANGED <<variant, file, canvas, zip, slideRelations, i, slides,
                   imageSlides, remote, error, cause, calls>>

\* Method 2: any image under ppt/slides/media/.
AnySlideScopedMedia ==
    /\ pc = "image"
    /\ phase = "method2"
    /\ LET slideMediaFiles == SelectSeq(Keys(zip[1]), LAMBDA f :
                                  StartsWith(f, "ppt/slides/media/") /\ IsImageFile(f))
       IN  IF slideMediaFiles # <<>>
           THEN ReturnImage(slideMediaFiles[1])
           ELSE /\ phase' = "method3"
                /\ UNCHANGED <<pc, outcome, result>>
    /\ UNCHANGED <<variant, file, canvas, zip, slideRelations, i, slides,
                   imageSlides, remote, error, cause, calls>>

\* Method 3: renderSlideAsImage; '' and null fall through.
SyntheticRenderMethod ==
    /\ pc = "image"
    /\ phase = "method3"
    /\ LET slideImageUrl == RenderSlideAsImage(zip[1], SlidePath(i + 1), i + 1, canvas)
       IN  IF Truthy(slideImageUrl)
           THEN /\ pc' = "done"
                /\ outcome' = "returned"
                /\ result' = slideImageUrl
                /\ UNCHANGED phase
           ELSE /\ phase' = "method4"
                /\ UNCHANGED <<pc, outcome, result>>
    /\ UNCHANGED <<variant, file, canvas, zip, slideRelations, i, slides,
                   imageSlides, remote, error, cause, calls>>

\* Method 4: the first thumbnail path that is a file; else return null.
ThumbnailProbe ==
    /\ pc = "image"
    /\ phase = "method4"
    /\ LET thumbnails == SelectSeq(ThumbnailPaths(i + 1),
                                   LAMBDA q : ZipFile(zip[1], q) # Null)
       IN  IF thumbnails # <<>>
           THEN ReturnImage(thumbnails[1])
           ELSE /\ pc' = "done"
                /\ outcome' = "returned"
                /\ result' = Null
                /\ phase' = "none"
    /\ UNCHANGED <<variant, file, canvas, zip, slideRelations, i, slides,
                   imageSlides, remote, error, cause, calls>>

NextImage ==
    \/ TargetedMediaMatch /\ UNCHANGED asideVars
    \/ AnySlideScopedMedia /\ UNCHANGED asideVars
    \/ SyntheticRenderMethod /\ UNCHANGED asideVars
    \/ ThumbnailProbe /\ UNCHANGED asideVars

SpecImage == InitImage /\ [][NextImage]_vars

----------------------------------------------------------------------------
(* Two calls of parsePowerPointFile in flight at once.  Each call is an    *)
(* async function: it runs until an await (the remote conversion, an       *)
(* archive read, the parsing of one slide) and the other call may run      *)
(* before it resumes.  `parsers` is the heap of PPTXParser objects and     *)
(* `running` holds, per call, the locals of parsePPTX and extractSlides.   *)

CallIds == {1, 2}

\* private zip: JSZip | null = null; private slideRelations = new Map()
NewPPTXParser == [zip |-> Null, slideRelations |-> <<>>]

\* A module that keeps one parser and hands it to every call.
SharedParser(heap) ==
    IF heap = <<>>
    THEN [heap |-> <<NewPPTXParser>>, parser |-> 1]
    ELSE [heap |-> heap, parser |-> 1]

\* const parser = new PPTXParser(): every call allocates its own object.
AllocateParser(heap) ==
    [heap |-> Append(heap, NewPPTXParser), parser |-> Len(heap) + 1]

Ref1 == [rid |-> "rId1", id |-> "256"]
Ref2 == [rid |-> "", id |-> "rId2"]

\* Two decks that differ in their relationships and media, and a file that
\* is no archive.
PairFiles ==
    { Package(<<Ref1, Ref2>>, <<RelsEntry(RelsFull)>>, Slide1Ok, Slide2Ok, <<>>),
      Package(<<Ref1, Ref2>>, <<RelsEntry(RelsNoSecond)>>, Slide1Ok, Slide2Ok,
              TargetedMedia),
      PptxFile(FALSE, <<>>) }

\* The remote conversion rejects, reports failure, or gives two images.
PairFetchOutcomes == {Null, Some(PptxToImagesRoute(-1)), Some(PptxToImagesRoute(2))}

PairPdfRuns == {Null, Some(PdfRun(TRUE, FALSE, TRUE, TRUE, 2))}

\* parsePowerPointFile(f) has been called and has not run yet.
NewCall(f) ==
    [file |-> f, parser |-> 0, pc |-> "start", phase |-> "none", fetched |-> Null,
     pdfRun |-> Null, imageSlides |-> <<>>, slideIds |-> <<>>, i |-> 0,
     slides |-> <<>>, outcome |-> "pending", result |-> <<>>, overlapped |-> FALSE]

InitPair ==
    /\ variant \in {"rich", "basic"}
    /\ file = PptxFile(FALSE, <<>>)
    /\ canvas = [detailed |-> TRUE, plain |-> TRUE]
    /\ zip = Null
    /\ slideRelations = <<>>
    /\ pc = "pair"
    /\ phase = "none"
    /\ i = 0
    /\ slides = <<>>
    /\ imageSlides = <<>>
    /\ remote = "none"
    /\ outcome = "pending"
    /\ result = <<>>
    /\ error = ""
    /\ cause = ""
    /\ calls = NoCalls
    /\ NoRendering
    /\ allSlides = <<>>
    /\ processingStep = Converting
    /\ parsers = <<>>
    /\ running \in { <<NewCall(f), NewCall(g)>> : f, g \in PairFiles }

\* The other call is between its first step and its completion.
InFlight(c) == running[c].pc \notin {"start", "done"}

\* Call c runs from one await to the next and is left as `call`; the history
\* field `overlapped` records that it ran while the other call was in flight.
Resume(c, call) ==
    running' = [running EXCEPT
                  ![c] = [call EXCEPT !.overlapped = @ \/ InFlight(3 - c)]]

\* this.zip and this.slideRelations of the parser call c holds.
ParserOf(c) == parsers[running[c].parser]

\* A throw inside direct parsing, as DirectParsingThrows has it.
AfterDirectParsingThrows(call) ==
    IF variant = "rich" /\ call.phase = "combine"
    THEN [call EXCEPT !.pc = "load", !.phase = "fallback"]
    ELSE [call EXCEPT !.pc = "done", !.outcome = "thrown"]

\* parsePowerPointFile up to the first await of parsePPTX.
StartParsing(c) ==
    /\ running[c].pc = "start"
    /\ LET made == AllocateParser(parsers)
       IN  /\ parsers' = made.heap
           /\ Resume(c, [running[c] EXCEPT !.parser = made.parser, !.pc = "convert"])
    /\ UNCHANGED <<parserVars, rendererVars, allSlides, processingStep>>

\* await this.convertToImagesAndExtract(file) of call c.
CallConvertToImages(c) ==
    /\ running[c].pc = "convert"
    /\ \E fetched \in PairFetchOutcomes :
         LET r == ConvertToImagesAndExtractOp(fetched)
             got == IF r.threw THEN <<>> ELSE r.value
             met == [running[c] EXCEPT !.fetched = fetched, !.imageSlides = got]
         IN  Resume(c, IF got # <<>>
                       THEN IF variant = "rich"
                            THEN [met EXCEPT !.pc = "load", !.phase = "combine"]
                            ELSE [met EXCEPT !.pc = "done", !.outcome = "returned",
                                             !.result = got]
                       ELSE IF variant = "rich"
                            THEN [met EXCEPT !.pc = "load", !.phase = "fallback"]
                            ELSE [met EXCEPT !.pc = "pdf"])
    /\ UNCHANGED <<parserVars, rendererVars, allSlides, processingStep, parsers>>

\* Basic variant: await this.convertToPDFAndExtract(file) of call c.
CallConvertToPDF(c) ==
    /\ running[c].pc = "pdf"
    /\ \E run \in PairPdfRuns :
         LET r == ConvertToPDFAndExtractOp(run)
             met == [running[c] EXCEPT !.pdfRun = run]
         IN  Resume(c, IF ~r.threw /\ r.value # <<>>
                       THEN [met EXCEPT !.pc = "done", !.outcome = "returned",
                                        !.result = r.value]
                       ELSE [met EXCEPT !.pc = "load", !.phase = "fallback"])
    /\ UNCHANGED <<parserVars, rendererVars, allSlides, processingStep, parsers>>

\* this.zip = await JSZip.loadAsync(file) of call c.
CallLoadZip(c) ==
    /\ running[c].pc = "load"
    /\ IF running[c].file.opens
       THEN /\ parsers' = [parsers EXCEPT
                             ![running[c].parser].zip = Some(running[c].file.entries)]
            /\ Resume(c, [running[c] EXCEPT !.pc = "rels"])
       ELSE /\ Resume(c, AfterDirectParsingThrows(running[c]))
            /\ UNCHANGED parsers
    /\ UNCHANGED <<parserVars, rendererVars, allSlides, processingStep>>

\* await this.parseSlideRelations() of call c.
CallParseSlideRelations(c) ==
    /\ running[c].pc = "rels"
    /\ LET r == ParseSlideRelationsOp(ParserOf(c).zip[1], ParserOf(c).slideRelations)
       IN  IF r.threw
           THEN /\ Resume(c, AfterDirectParsingThrows(running[c]))
                /\ UNCHANGED parsers
           ELSE /\ parsers' = [parsers EXCEPT
                                 ![running[c].parser].slideRelations = r.value]
                /\ Resume(c, [running[c] EXCEPT !.pc = "slides"])
    /\ UNCHANGED <<parserVars, rendererVars, allSlides, processingStep>>

\* extractSlides of call c up to its loop; slideIds is a local of the call.
CallExtractSlides(c) ==
    /\ running[c].pc = "slides"
    /\ LET presentationFile == ZipFile(ParserOf(c).zip[1], PresentationPath)
       IN  Resume(c, IF presentationFile = Null \/ presentationFile[1].corrupt
                     THEN AfterDirectParsingThrows(running[c])
                     ELSE [running[c] EXCEPT !.pc = "loop", !.i = 0,
                             !.slides = <<>>,
                             !.slideIds = presentationFile[1].refs])
    /\ UNCHANGED <<parserVars, rendererVars, allSlides, processingStep, parsers>>

\* One iteration of the loop of call c, which reads this.zip and
\* this.slideRelations as they are when the call resumes.
CallExtractSlide(c) ==
    /\ running[c].pc = "loop"
    /\ running[c].i < Len(running[c].slideIds)
    /\ LET r == ExtractRef(ParserOf(c).zip[1], ParserOf(c).slideRelations,
                           running[c].slideIds[running[c].i + 1],
                           running[c].i + 1, canvas)
       IN  Resume(c, IF r.threw
                     THEN AfterDirectParsingThrows(running[c])
                     ELSE [running[c] EXCEPT !.slides = @ \o r.value, !.i = @ + 1])
    /\ UNCHANGED <<parserVars, rendererVars, allSlides, processingStep, parsers>>

\* extractSlides of call c returns, and parsePPTX with it.
CallReturnSlides(c) ==
    /\ running[c].pc = "loop"
    /\ running[c].i = Len(running[c].slideIds)
    /\ Resume(c, [running[c] EXCEPT
                    !.pc = "done", !.outcome = "returned",
                    !.result = IF running[c].phase = "combine"
                               THEN CombineImageAndTextSlides(running[c].imageSlides,
                                                              running[c].slides)
                               ELSE running[c].slides])
    /\ UNCHANGED <<parserVars, rendererVars, allSlides, processingStep, parsers>>

NextPair ==
    \/ \E c \in CallIds : StartParsing(c)
    \/ \E c \in CallIds : CallConvertToImages(c)
    \/ \E c \in CallIds : CallConvertToPDF(c)
    \/ \E c \in CallIds : CallLoadZip(c)
    \/ \E c \in CallIds : CallParseSlideRelations(c)
    \/ \E c \in CallIds : CallExtractSlides(c)
    \/ \E c \in CallIds : CallExtractSlide(c)
    \/ \E c \in CallIds : CallReturnSlides(c)

SpecPair == InitPair /\ [][NextPair]_vars

TypeOK ==
    /\ pc \in {"convert", "awaiting", "pdf", "load", "rels", "slides", "loop", "done"}
    /\ outcome \in {"pending", "returned", "thrown"}
    /\ (pc = "done") = (outcome # "pending")

----------------------------------------------------------------------------
(* What the description of the pipeline says of it.                        *)

\* parsePPTX returned what a run of direct parsing produced, or spliced.
ReturnedByDirectParsing == pc = "done" /\ outcome = "returned" /\ phase # "none"

\* The manifest's k-th reference has its relationship id in the map.
Resolved(k) == RefId(SlideIds[k]) # "" /\ RefId(SlideIds[k]) \in DOMAIN slideRelations

\* The slide part the k-th reference resolves to: null, or the archive entry.
SlidePart(k) == ZipFile(zip[1], "ppt/" \o slideRelations[RefId(SlideIds[k])])

\* The records extractSlides made of the k-th reference.
RecordsOf(k) == SelectSeq(slides, LAMBDA s : s.slideNumber = k)

Increasing(numbers) ==
    \A a, b \in 1..Len(numbers) : a < b => numbers[a] < numbers[b]

SlideNumbers(records) == [k \in 1..Len(records) |-> records[k].slideNumber]

\* C1: whatever the physical order of the archive's entries, direct parsing
\* returns its records in the order of the manifest's references, with
\* strictly increasing slideNumber: the same ids, slide numbers and texts, in
\* the same order, as for the archive stored in the package's own order.
ManifestOrderUnderPermutation ==
    (pc = "done" /\ outcome = "returned") =>
        LET base == DirectParse(file.entries, canvas)
            Outline(records) ==
                [k \in 1..Len(records) |->
                    <<records[k].id, records[k].slideNumber, records[k].text>>]
        IN  /\ Increasing(SlideNumbers(result))
            /\ ~base.threw
            /\ Outline(result) = Outline(base.value)

\* C1: an archive stored in reverse yields two records of different slides,
\* the slide stored last coming first.
ManifestOrderWitness ==
    /\ pc = "done" /\ outcome = "returned"
    /\ zip[1] = Reverse(file.entries)
    /\ Len(result) >= 2
    /\ result[1].text = "Hello World"
    /\ result[2].text = ""

\* C2: a reference whose relationship id is not in the map yields no record and
\* no exception: extractSlides never throws out of its loop, and returns
\* exactly as many records as there are references that resolve and extract.
UnresolvedReferencesDropped ==
    /\ cause # "slide"
    /\ ReturnedByDirectParsing =>
         /\ i = Len(SlideIds)
         /\ Len(slides) = Cardinality({k \in 1..Len(SlideIds) :
                /\ Resolved(k)
                /\ ExtractSlideContent(zip[1], slideRelations[RefId(SlideIds[k])],
                                       k, canvas) # Null})
         /\ \A k \in 1..Len(SlideIds) : ~Resolved(k) => RecordsOf(k) = <<>>

\* C2: three references, one of them unresolved, two records.
UnresolvedReferencesWitness ==
    /\ ReturnedByDirectParsing
    /\ Len(SlideIds) = 3
    /\ Cardinality({k \in 1..3 : Resolved(k)}) = 2
    /\ Len(slides) = 2
    /\ result = slides

\* C3: every record of direct parsing carries the 1-based manifest position of
\* the reference it was made of (it has that reference's slide text), its id
\* is slide-<slideNumber>, and the ids of one sequence are pairwise distinct.
PositionalNumbering ==
    (pc = "loop" \/ ReturnedByDirectParsing) =>
        /\ \A k \in 1..Len(slides) :
             LET n == slides[k].slideNumber
             IN  /\ n \in 1..i
                 /\ Resolved(n)
                 /\ SlidePart(n) # Null
                 /\ slides[k].text = SlideText(SlidePart(n)[1].runs)
                 /\ slides[k].id = "slide-" \o ToString(n)
        /\ Increasing(SlideNumbers(slides))
        /\ \A a, b \in 1..Len(slides) : a # b => slides[a].id # slides[b].id

\* C3: of three references the second is unresolved; the records are numbered
\* 1 and 3.
PositionalNumberingWitness ==
    /\ ReturnedByDirectParsing
    /\ Len(SlideIds) = 3
    /\ ~Resolved(2)
    /\ SlideNumbers(result) = <<1, 3>>
    /\ result[2].id = "slide-3"

\* C4: the record at output index k - 1 of every returned sequence starts at
\* (k - 1) * 10 and lasts 10, so the default timeline is contiguous from zero.
UniformContiguousTiming ==
    (pc = "done" /\ outcome = "returned") =>
        \A k \in 1..Len(result) :
            /\ result[k].startTime = (k - 1) * SlideDuration
            /\ result[k].duration = SlideDuration

NoMediaFiles == \A f \in Range(Keys(zip[1])) : ~IsMediaFile(f)

PlainCanvasImage(slideNumber) ==
    DataUri("image/png", "plain-canvas-" \o ToString(slideNumber))

\* C5: no record, collected or returned, has an empty imageUrl; when the
\* geometry renderer has no drawing context (it returns '') and the archive
\* holds no media, a slide's record carries the placeholder image, or there is
\* no record of it at all if the placeholder renderer has no context either.
ImageUrlNeverEmpty ==
    /\ \A k \in 1..Len(slides) : slides[k].imageUrl # ""
    /\ \A k \in 1..Len(result) : result[k].imageUrl # ""
    /\ (slides # <<>> /\ ~canvas.detailed /\ NoMediaFiles) =>
         /\ canvas.plain
         /\ \A k \in 1..Len(slides) :
              slides[k].imageUrl = PlainCanvasImage(slides[k].slideNumber)

\* C5: direct parsing alone returned a record with the placeholder image, the
\* geometry renderer having no context.
ImageUrlWitness ==
    /\ ReturnedByDirectParsing
    /\ phase = "fallback"
    /\ ~canvas.detailed
    /\ result # <<>>
    /\ result[1].imageUrl = PlainCanvasImage(result[1].slideNumber)

\* C6 as stated: every reference whose relationship id is in the map has
\* exactly one record, with an image.
EveryResolvedReferenceYieldsARecord ==
    ReturnedByDirectParsing =>
        \A k \in 1..Len(SlideIds) :
            Resolved(k) => /\ Len(RecordsOf(k)) = 1
                           /\ RecordsOf(k)[1].imageUrl # ""

\* C6: every reference whose relationship id is in the map has at most one
\* record; it has exactly one, with a non-empty imageUrl, when its slide part
\* is in the archive and readable and the placeholder renderer obtains a
\* drawing context, and none when the slide part is missing or unreadable.
ResolvedReadableReferenceYieldsARecord ==
    ReturnedByDirectParsing =>
        \A k \in 1..Len(SlideIds) :
            Resolved(k) =>
                LET part == SlidePart(k)
                    sound == part # Null /\ ~part[1].corrupt
                IN  /\ Len(RecordsOf(k)) <= 1
                    /\ ~sound => RecordsOf(k) = <<>>
                    /\ (sound /\ canvas.plain) =>
                          /\ Len(RecordsOf(k)) = 1
                          /\ RecordsOf(k)[1].imageUrl # ""

\* C6: a slide without text, in an archive without media, the geometry renderer
\* without a context: one record, with the placeholder image and empty text.
BareSlideWitness ==
    /\ ReturnedByDirectParsing
    /\ ~canvas.detailed
    /\ NoMediaFiles
    /\ \E k \in 1..Len(SlideIds) :
         /\ Resolved(k)
         /\ SlidePart(k) # Null
         /\ ~SlidePart(k)[1].corrupt
         /\ SlidePart(k)[1].runs = <<>>
         /\ Len(RecordsOf(k)) = 1
         /\ RecordsOf(k)[1].text = ""
         /\ RecordsOf(k)[1].imageUrl = PlainCanvasImage(k)

\* C7: a call of parsePPTX ends by returning a non-empty array or by throwing
\* the one user-facing error; it never returns an empty array.
NonEmptyOrThrows ==
    pc = "done" =>
        \/ outcome = "returned" /\ result # <<>>
        \/ outcome = "thrown" /\ error = ParseErrorMessage

\* The file is no archive, or an archive without ppt/presentation.xml.
InvalidPackage == ~file.opens \/ ZipFile(file.entries, PresentationPath) = Null

\* C8: once direct parsing was started on a file that cannot be opened or has
\* no ppt/presentation.xml, parsePPTX returns nothing: the call ends by
\* throwing the user-facing error.
InvalidPackageAborts ==
    (calls.load > 0 /\ InvalidPackage) =>
        /\ outcome # "returned"
        /\ result = <<>>
        /\ pc = "done" => outcome = "thrown" /\ error = ParseErrorMessage

\* C8: an archive that opens and has no presentation part; extractSlides threw
\* and parsePPTX threw the user-facing error.
InvalidPackageWitness ==
    /\ pc = "done"
    /\ outcome = "thrown"
    /\ error = ParseErrorMessage
    /\ cause = "presentation"
    /\ file.opens
    /\ ZipFile(file.entries, PresentationPath) = Null

\* C9: when the remote conversion gave slides, parsePPTX returns one record per
\* image, in order, each with its image; what direct parsing alone produced is
\* returned only after the remote conversion threw or gave no slide.
StrategiesInFixedOrder ==
    pc = "done" =>
        /\ remote = "images" =>
             /\ outcome = "returned"
             /\ Len(result) = Len(imageSlides)
             /\ \A k \in 1..Len(result) : result[k].imageUrl = imageSlides[k].imageUrl
        /\ (outcome = "returned" /\ phase = "fallback") =>
             remote \in {"threw", "empty", "combined"}

\* C10: within one call the remote conversion, the opening of the archive, the
\* parsing of the relationships and the extraction of the slides each run at
\* most once.
NoRetries ==
    /\ calls.remote <= 1
    /\ calls.load <= 1
    /\ calls.rels <= 1
    /\ calls.extract <= 1

\* The remote image conversion reported that it is unavailable: the fetch
\* rejected or answered with a non-OK status, or the answer has the fallback flag.
Unavailable == remote \in {"threw", "empty"}

SameCountAndText(records, base) ==
    /\ Len(records) = Len(base)
    /\ \A k \in 1..Len(base) : records[k].text = base[k].text

\* C11 as stated: after the image conversion reported unavailability, what
\* parsePPTX returns has the count and the texts of direct parsing alone.
UnavailableMeansDirectParseOutput ==
    (pc = "done" /\ Unavailable) =>
        LET base == DirectParse(file.entries, canvas)
        IN  /\ outcome = "thrown" => base.threw
            /\ outcome = "returned" =>
                 ~base.threw /\ SameCountAndText(result, base.value)

\* C11: an unavailable image conversion is not reported to the caller: the
\* richer variant goes on to direct parsing, the basic one to the PDF
\* conversion, whose pages it returns if there are any.  When direct parsing
\* is reached the call ends as direct parsing alone ends on the same file:
\* with its exception as the user-facing error, or with as many records and
\* the same text per record.
FallbackEquivalence ==
    /\ (Unavailable /\ variant = "rich") => phase = "fallback"
    /\ (Unavailable /\ variant = "basic" /\ phase = "none") =>
         \/ pc = "pdf"
         \/ pc = "done" /\ outcome = "returned" /\ calls.pdf = 1 /\ result # <<>>
    /\ (pc = "done" /\ Unavailable /\ phase = "fallback") =>
         LET base == DirectParse(file.entries, canvas)
         IN  IF base.threw
             THEN outcome = "thrown" /\ error = ParseErrorMessage
             ELSE outcome = "returned" /\ SameCountAndText(result, base.value)

\* C11: the service answered with the fallback flag, and parsePPTX returned
\* the two records of direct parsing.
FallbackEquivalenceWitness ==
    /\ pc = "done"
    /\ remote = "empty"
    /\ phase = "fallback"
    /\ outcome = "returned"
    /\ Len(result) = 2
    /\ result[1].text = "Hello World"
    /\ result = DirectParse(file.entries, canvas).value

\* C12: whatever the conversion service does, the call of parsePPTX ends.
ParsePPTXTerminates == <>(pc = "done")

\* The one image the route answers with when the conversion left one PNG file.
CombinedImage == PptxToImagesRoute(1).images[1]

ReturnedCombined == pc = "done" /\ outcome = "returned" /\ phase = "combine"

\* C14: combineImageAndTextSlides gives one record per image record, in order;
\* record k keeps the image record's id, imageUrl, startTime and duration and
\* has the text of the k-th text record if there is one and the image
\* record's own text otherwise.
CombineKeepsImagesAdoptsText ==
    ReturnedCombined =>
        /\ Len(result) = Len(imageSlides)
        /\ \A k \in 1..Len(result) :
             /\ result[k].id = imageSlides[k].id
             /\ result[k].imageUrl = imageSlides[k].imageUrl
             /\ result[k].startTime = imageSlides[k].startTime
             /\ result[k].duration = imageSlides[k].duration
             /\ result[k].text = IF k <= Len(slides) THEN slides[k].text
                                 ELSE imageSlides[k].text

\* C14: two images and one text record: the first record has the slide's text,
\* the second the image record's placeholder text.
CombineWitness ==
    /\ ReturnedCombined
    /\ Len(imageSlides) = 2
    /\ Len(slides) = 1
    /\ result[1].text = "Hello World"
    /\ result[2].text = "Slide 2 content"
    /\ result[2].imageUrl = imageSlides[2].imageUrl

\* C15: a call on a parser that has parsed another file before ends as a call
\* on a new parser ends: with the same records, or with the error where
\* direct parsing of the file throws.
NoLeakAcrossCalls ==
    pc = "done" =>
        LET base == DirectParse(file.entries, canvas)
        IN  IF base.threw THEN outcome = "thrown"
            ELSE outcome = "returned" /\ result = base.value

\* The slide part of the k-th reference is missing from the archive or unreadable.
PartFails(k) == Resolved(k) /\ (SlidePart(k) = Null \/ SlidePart(k)[1].corrupt)

RECURSIVE SetToSeq(_)
SetToSeq(S) == IF S = {} THEN <<>>
               ELSE LET x == CHOOSE y \in S : TRUE IN <<x>> \o SetToSeq(S \ {x})

\* The archive with every part a relationship points to present and readable.
Repaired(entries, map) ==
    LET targets == { "ppt/" \o map[r] : r \in DOMAIN map }
        missing == targets \ Range(Keys(entries))
    IN  [k \in 1..Len(entries) |->
            IF entries[k].name \in targets THEN [entries[k] EXCEPT !.corrupt = FALSE]
            ELSE entries[k]]
        \o [k \in 1..Cardinality(missing) |-> SlideEntry(SetToSeq(missing)[k], FALSE, NoRuns)]

\* C16: a slide whose part is missing or unreadable is dropped and nothing is
\* thrown; the records of the other slides are, field by field and in the
\* same order, those that direct parsing makes of them when every slide part
\* is present and readable.
PerSlideFailureDropsOnlyThatSlide ==
    /\ cause # "slide"
    /\ ReturnedByDirectParsing =>
         LET base == ExtractSlidesOp(Repaired(zip[1], slideRelations), slideRelations,
                                     canvas)
         IN  /\ ~base.threw
             /\ slides = SelectSeq(base.value, LAMBDA r : ~PartFails(r.slideNumber))
             /\ \A k \in 1..Len(SlideIds) : PartFails(k) => RecordsOf(k) = <<>>

\* C16: the first slide's part fails, and a later slide has its record.
PerSlideFailureWitness ==
    /\ ReturnedByDirectParsing
    /\ Len(SlideIds) >= 2
    /\ PartFails(1)
    /\ slides # <<>>
    /\ slides[1].slideNumber > 1
    /\ result = slides

\* No renderer obtains a drawing context.
NoDrawingSurface == ~canvas.detailed /\ ~canvas.plain

\* The archive holds no image that extractSlideImage takes for the k-th slide.
NoBitmap(k) ==
    ExtractSlideImage(zip[1], slideRelations[RefId(SlideIds[k])], k,
                      [detailed |-> FALSE, plain |-> FALSE]) = Null

\* C17: without a drawing surface a slide without embedded bitmap is dropped,
\* a slide with one keeps it, no record has an empty image, and the failure
\* never leaves extractSlides as an exception.
RendererFailureDropsSlide ==
    /\ cause # "slide"
    /\ (ReturnedByDirectParsing /\ NoDrawingSurface) =>
         /\ \A k \in 1..Len(SlideIds) :
              (Resolved(k) /\ ~PartFails(k)) =>
                  IF NoBitmap(k) THEN RecordsOf(k) = <<>>
                  ELSE /\ Len(RecordsOf(k)) = 1
                       /\ Some(RecordsOf(k)[1].imageUrl) =
                            ExtractSlideImage(zip[1], slideRelations[RefId(SlideIds[k])],
                                              k, canvas)
         /\ \A k \in 1..Len(slides) : slides[k].imageUrl # ""

\* C17: no drawing surface; the first slide has an embedded bitmap and a
\* record, the second has none and is dropped, and parsePPTX returned.
RendererFailureWitness ==
    /\ ReturnedByDirectParsing
    /\ NoDrawingSurface
    /\ Len(slides) = 1
    /\ \E k \in 1..Len(SlideIds) :
         Resolved(k) /\ ~PartFails(k) /\ NoBitmap(k) /\ RecordsOf(k) = <<>>
    /\ result = slides

\* The text the description expects of the text runs of the parts.
ExpectedText(runs) ==
    CASE runs = <<"  Hello  ", "", "World">> -> "Hello World"
      [] runs = <<"\t", "Click to edit ">> -> "Click to edit"
      [] runs = <<>> -> ""

RECURSIVE TotalLength(_)
TotalLength(strs) == IF strs = <<>> THEN 0 ELSE Len(Head(strs)) + TotalLength(Tail(strs))

\* C18: the text of a directly parsed record is made of the slide's runs in
\* document order, trimmed, the empty ones left out, with one space between
\* two of them: runs "  Hello  ", "", "World" give "Hello World", and a slide
\* without runs has the empty string.
TextIsTrimmedJoin ==
    (pc = "loop" \/ ReturnedByDirectParsing) =>
        \A k \in 1..Len(slides) :
            LET runs == SlidePart(slides[k].slideNumber)[1].runs
                text == slides[k].text
                kept == SelectSeq(runs, LAMBDA r : Trim(r) # "")
            IN  /\ text = ExpectedText(runs)
                /\ (text = "") = (kept = <<>>)
                /\ text # "" =>
                     /\ ~IsSpace(SubSeq(text, 1, 1))
                     /\ ~IsSpace(SubSeq(text, Len(text), Len(text)))
                     /\ StartsWith(text, Trim(kept[1]))
                     /\ Len(text) = TotalLength([j \in 1..Len(kept) |-> Trim(kept[j])])
                                    + Len(kept) - 1

\* C18: a returned sequence with the text of the three runs and the empty
\* text of a slide without runs.
TextWitness ==
    /\ ReturnedByDirectParsing
    /\ \E a, b \in 1..Len(slides) :
         /\ SlidePart(slides[a].slideNumber)[1].runs = <<"  Hello  ", "", "World">>
         /\ slides[a].text = "Hello World"
         /\ SlidePart(slides[b].slideNumber)[1].runs = <<>>
         /\ slides[b].text = ""

\* The outcome of each step of the image resolution of slide n on its own:
\* an image, or nothing.
ArchiveNames == [k \in 1..Len(zip[1]) |-> zip[1][k].name]

TargetedMatch(n) ==
    LET names == SelectSeq(ArchiveNames, LAMBDA f :
                     IsMediaFile(f) /\ IsImageFile(f) /\ MatchesSlide(f, n))
    IN  IF names = <<>> THEN Null ELSE ReadImage(zip[1], ShortestFirst(names))

SlideScopedMatch ==
    LET names == SelectSeq(ArchiveNames, LAMBDA f :
                     StartsWith(f, "ppt/slides/media/") /\ IsImageFile(f))
    IN  IF names = <<>> THEN Null ELSE ReadImage(zip[1], names[1])

SyntheticRender(n) ==
    IF canvas.detailed THEN Some(CreateDetailedCanvasSlide(n, canvas)) ELSE Null

ThumbnailMatch(n) ==
    LET paths == SelectSeq(ThumbnailPaths(n), LAMBDA q : ZipFile(zip[1], q) # Null)
    IN  IF paths = <<>> THEN Null ELSE ReadImage(zip[1], paths[1])

CascadeSteps(n) ==
    << TargetedMatch(n), SlideScopedMatch, SyntheticRender(n), ThumbnailMatch(n) >>

\* The image direct parsing found for the slide of a record, if it found one:
\* a record without one carries the placeholder drawn from the text alone.
ResolvedImage(rec) ==
    IF rec.imageUrl = DataUri("image/png", "plain-canvas-" \o ToString(rec.slideNumber))
    THEN Null ELSE Some(rec.imageUrl)

\* C19: the image of a slide is that of the first of the four steps, targeted
\* media, slide-scoped media, synthetic render, thumbnail paths, that yields
\* one; a later step's image is taken only when every earlier step yielded
\* nothing.
FirstSuccessWins ==
    (pc = "loop" \/ ReturnedByDirectParsing) =>
        \A k \in 1..Len(slides) :
            LET steps == CascadeSteps(slides[k].slideNumber)
                image == ResolvedImage(slides[k])
            IN  /\ \A j \in 1..4 :
                     (steps[j] # Null /\ \A h \in 1..(j - 1) : steps[h] = Null)
                         => image = steps[j]
                /\ (\A j \in 1..4 : steps[j] = Null) => image = Null

\* C19: a returned sequence where the first slide has the file named after it
\* although slide-scoped media precede it in the archive and the renderer has
\* a context, and the second slide has the first slide-scoped file.
FirstSuccessWitness ==
    /\ ReturnedByDirectParsing
    /\ canvas.detailed
    /\ Len(slides) = 2
    /\ zip[1][Len(zip[1])].name = "ppt/media/image1.png"
    /\ slides[1].slideNumber = 1
    /\ slides[1].imageUrl = "data:image/png;base64,aW1hZ2Ux"
    /\ slides[2].slideNumber = 2
    /\ slides[2].imageUrl = "data:image/jpeg;base64,cGhvdG8="

\* C20: for a slide that no media file of the archive matches, the image
\* resolution ends at the synthetic renderer and returns its image: it never
\* returns nothing.
NoMediaEndsAtRenderer ==
    (pc = "loop" \/ ReturnedByDirectParsing) =>
        \A k \in 1..Len(slides) :
            LET n == slides[k].slideNumber
            IN  (TargetedMatch(n) = Null /\ SlideScopedMatch = Null) =>
                    /\ ResolvedImage(slides[k]) # Null
                    /\ ResolvedImage(slides[k]) =
                           Some(DataUri("image/png", "detailed-canvas-" \o ToString(n)))

\* The relationships part of the archive, and the relationship ids it gives
\* to parts that are not slides.
RelsOfArchive ==
    IF zip = Null \/ ZipFile(zip[1], RelsPath) = Null THEN <<>>
    ELSE ZipFile(zip[1], RelsPath)[1].rels

NonSlideIds ==
    { RelsOfArchive[k].Id : k \in { j \in 1..Len(RelsOfArchive) :
                                      ~StartsWith(RelsOfArchive[j].Target, "slides/") } }

\* C21: the relationship map holds entries for slide parts only, and a
\* manifest reference that carries the relationship id of a master, layout or
\* theme has no record.
OnlySlideRelationsKept ==
    /\ \A id \in DOMAIN slideRelations : StartsWith(slideRelations[id], "slides/")
    /\ (pc = "loop" \/ ReturnedByDirectParsing) =>
          \A k \in 1..Len(slides) :
              RefId(SlideIds[slides[k].slideNumber]) \notin NonSlideIds

\* The positions, in the archive's enumeration order, of the image entries
\* under ppt/slides/media/.
ScopedPositions ==
    { k \in 1..Len(zip[1]) : /\ StartsWith(zip[1][k].name, "ppt/slides/media/")
                             /\ IsImageFile(zip[1][k].name) }

FirstScopedEntry ==
    zip[1][CHOOSE k \in ScopedPositions : \A j \in ScopedPositions : k <= j]

\* C22: a slide for which the targeted match finds nothing, in an archive with
\* image entries under ppt/slides/media/, has the first of these entries in
\* the archive's order as its image, whatever its number: all such slides of
\* a package have the same image.
SecondStepTakesFirstScoped ==
    (pc = "loop" \/ ReturnedByDirectParsing) =>
        \A k \in 1..Len(slides) :
            (TargetedMatch(slides[k].slideNumber) = Null /\ ScopedPositions # {}) =>
                /\ slides[k].imageUrl =
                       DataUri(GetMimeType(FirstScopedEntry.name), FirstScopedEntry.data)
                /\ \A j \in 1..Len(slides) :
                       TargetedMatch(slides[j].slideNumber) = Null
                           => slides[j].imageUrl = slides[k].imageUrl

\* C22: chart.PNG precedes photo.jpg in the archive, the renderer has a
\* context, and the records of slide 1 and slide 2 both carry chart.PNG.
SecondStepWitness ==
    /\ ReturnedByDirectParsing
    /\ canvas.detailed
    /\ Cardinality(ScopedPositions) = 2
    /\ FirstScopedEntry.name = "ppt/slides/media/chart.PNG"
    /\ \E a, b \in 1..Len(slides) :
         /\ slides[a].slideNumber = 1
         /\ slides[b].slideNumber = 2
         /\ slides[a].imageUrl = "data:image/png;base64,Y2hhcnQ="
         /\ slides[b].imageUrl = "data:image/png;base64,Y2hhcnQ="

\* The paragraphs of the document with text, as positions of the document.
TextBearing ==
    { k \in 1..Len(xmlDoc[1].paragraphs) : Trim(xmlDoc[1].paragraphs[k].text) # "" }

FirstTextBearing == CHOOSE k \in TextBearing : \A j \in TextBearing : k <= j

\* C23: a paragraph with text is classified as title exactly when its shape's
\* placeholder is of type title, ctrTitle or subTitle, or its font size is
\* above 20pt, or it is the first paragraph of the document with text.
TitleExactlyWhen ==
    \A e \in 1..Len(slideInfo[1].textElements) :
        LET textElement == slideInfo[1].textElements[e]
            paragraph == xmlDoc[1].paragraphs[textElement.index + 1]
        IN  textElement.isTitle <=>
                \/ paragraph.inShape /\ paragraph.ph \in TitleTypes
                \/ paragraph.sz > 2000
                \/ textElement.index + 1 = FirstTextBearing

\* How often a text was drawn on the canvas.
TimesDrawn(text) == Cardinality({ k \in 1..Len(fillText) : fillText[k].text = text })

\* C28: on the canvas of the geometry-driven renderer every text element of
\* the slide is drawn exactly once, as the title or as a body element.
EveryElementDrawnOnce ==
    (pc = "drawn" /\ canvas.detailed) =>
        \A e \in 1..Len(slideInfo[1].textElements) :
            TimesDrawn(slideInfo[1].textElements[e].text) = 1

\* The entries of the canvas drawn as `kind`.
Drawn(kind) == SelectSeq(fillText, LAMBDA d : d.as = kind)

\* The wrapped lines of the whole text.
WrappedLines ==
    Concat([k \in 1..Len(FilledParagraphs(drawnText)) |->
                Wrap(FilledParagraphs(drawnText)[k], MaxTextWidth)])

\* C24: the text-only renderer draws at most 22 lines and none below the
\* margin, draws the ellipsis exactly when a wrapped line of the text was left
\* undrawn, and draws 'No content available' exactly when the text has no
\* visible character.
EllipsisExactlyWhenTruncated ==
    (pc = "drawn" /\ outcome = "returned") =>
        /\ MaxLines = 22
        /\ Len(Drawn("line")) <= 22
        /\ \A k \in 1..Len(Drawn("line")) : Drawn("line")[k].y < CanvasHeight - 100
        /\ (Drawn("ellipsis") # <<>>) <=> (Len(Drawn("line")) < Len(WrappedLines))
        /\ (Drawn("placeholder") # <<>>) <=> (FilledParagraphs(drawnText) = <<>>)

\* C25: in the combined output the record with slideNumber k has the text of
\* the slide that the k-th reference of the manifest names, also when direct
\* parsing dropped an earlier slide.
CombinedTextFollowsManifest ==
    ReturnedCombined =>
        \A r \in 1..Len(result) :
            LET k == result[r].slideNumber
            IN  (k <= Len(SlideIds) /\ RecordsOf(k) # <<>>) =>
                    /\ result[r].text = RecordsOf(k)[1].text
                    /\ result[r].text = SlideText(SlidePart(k)[1].runs)

\* The slide number a media file of the archives is named after (0: none).
NumberInName(name) ==
    CASE name = "ppt/media/image1.png" -> 1
      [] name = "ppt/media/image10.png" -> 10
      [] name = "ppt/media/slide12.jpg" -> 12
      [] name = "ppt/media/slide2.jpg" -> 2
      [] name = "ppt/slides/media/slide1.png" -> 1
      [] name = "ppt/slides/media/slide2.png" -> 2
      [] OTHER -> 0

\* The archive entries whose image extractSlideImage returned.
ReturnedEntries ==
    { e \in Range(zip[1]) : e.data # "" /\ result = Some(DataUri(GetMimeType(e.name), e.data)) }

\* C26: the image the targeted match returns for slide N is an entry named
\* after the number N itself, never one named after a longer number that
\* begins with N's digits.
TargetedMatchIsExact ==
    (pc = "done" /\ phase = "method1" /\ result # Null) =>
        \A e \in ReturnedEntries : NumberInName(e.name) = i + 1

\* The thumbnail paths of slide i + 1 that are files of the archive.
ThumbnailFiles == { q \in Range(ThumbnailPaths(i + 1)) : ZipFile(zip[1], q) # Null }

\* C27: no image is ever returned by the thumbnail step: whenever one of the
\* four thumbnail paths of the slide is a file of the archive, the targeted
\* match has matched, and the image resolution ends in method 1.
ThumbnailStepNeverSupplies ==
    /\ ~(pc = "done" /\ phase = "method4")
    /\ ThumbnailFiles # {} => phase = "method1"

\* C27: slide 2 in an archive with ppt/media/slide2.jpg, no slide-scoped
\* media and no context for the renderer: method 1 returned the thumbnail.
ThumbnailWitness ==
    /\ pc = "done"
    /\ i + 1 = 2
    /\ ~canvas.detailed
    /\ ThumbnailFiles = {"ppt/media/slide2.jpg"}
    /\ \A f \in Range(Keys(zip[1])) : ~StartsWith(f, "ppt/slides/media/")
    /\ phase = "method1"
    /\ result = <<"data:image/jpeg;base64,c2xpZGUy">>

\* C29: every slide handleSlidesUpload stored has the id 'slide-' followed by
\* its slideNumber.
StoredIdMatchesNumber ==
    processingStep = "processed" =>
        \A k \in 1..Len(allSlides) : allSlides[k].id = SlideId(allSlides[k].slideNumber)

\* parsePPTX(f) run from its first line to its last with nothing in between:
\* the conversion met `fetched` (and, in the basic variant, `run`), and
\* direct parsing starts from a parser that holds nothing.
RunAlone(f, fetched, run, cv) ==
    LET converted == ConvertToImagesAndExtractOp(fetched)
        images == IF converted.threw THEN <<>> ELSE converted.value
        pdf == ConvertToPDFAndExtractOp(run)
        text == IF f.opens THEN DirectParse(f.entries, cv) ELSE Threw
    IN  IF variant = "rich"
        THEN IF images # <<>> /\ ~text.threw
             THEN Value(CombineImageAndTextSlides(images, text.value))
             ELSE text
        ELSE IF images # <<>> THEN Value(images)
        ELSE IF ~pdf.threw /\ pdf.value # <<>> THEN Value(pdf.value)
        ELSE text

\* C30: whatever the interleaving of two calls of parsePowerPointFile, a call
\* that has completed threw exactly when it throws run alone on its file, and
\* otherwise returned exactly the records it returns run alone.
EachCallReturnsAsAlone ==
    \A c \in DOMAIN running :
        running[c].pc = "done" =>
            LET alone == RunAlone(running[c].file, running[c].fetched,
                                  running[c].pdfRun, canvas)
            IN  /\ (running[c].outcome = "thrown") = alone.threw
                /\ ~alone.threw => running[c].result = alone.value

\* Two calls on different decks ran interleaved through direct parsing on
\* parsers of their own, and returned different records.
InterleavedCallsWitness ==
    /\ DOMAIN running = CallIds
    /\ \A c \in CallIds : /\ running[c].pc = "done"
                          /\ running[c].outcome = "returned"
                          /\ running[c].overlapped
                          /\ running[c].phase # "none"
                          /\ running[c].file.opens
    /\ running[1].file # running[2].file
    /\ running[1].parser # running[2].parser
    /\ running[1].result # running[2].result

====
